---- MODULE Spec2Model ----
(***************************************************************************)
(* Queryport client of couchbase/indexing: the connection pool             *)
(* (connectionPool: GetWithTimeout, Return, Renew, Close and the           *)
(* background releaseConnsRoutine) and the client operations built on it   *)
(* (Client.Statistics, Client.Scan, Client.ScanAll).                       *)
(*                                                                         *)
(* Every goroutine is a process with a program counter; one action is one  *)
(* channel operation, one atomic counter operation or one network call of  *)
(* the source, so that every interleaving the Go scheduler can produce is  *)
(* a behaviour of the model.                                               *)
(***************************************************************************)
EXTENDS Integers, Sequences, FiniteSets, TLC

\* ------------------------------------------------------------------ bounds
NumCallers == 2           \* goroutines that call into the pool / the client
MaxConns == 3             \* connections mkConn can dial before it only fails
MaxPoolSize == 1          \* poolSize is drawn from 0..MaxPoolSize
MaxPoolOverflow == 1      \* poolOverflow is drawn from 0..MaxPoolOverflow
MaxMinPoolSizeWM == 0     \* minPoolSizeWM is drawn from 0..MaxMinPoolSizeWM
MaxCloses == 2            \* invocations of connectionPool.Close
MaxRelConnBatchSize == 1  \* relConnBatchSize is drawn from 1..MaxRelConnBatchSize
\* The preloaded pool that only the routine works on:
RetainMaxWM == 1          \* its minPoolSizeWM is drawn from 0..RetainMaxWM
RetainMaxBatch == 2       \* its relConnBatchSize is drawn from 1..RetainMaxBatch
MaxFrames == 2            \* frames a ResponseHandler takes before it refuses one
MaxNilReturns == 2        \* Return(nil, h) is called while curActConns > -MaxNilReturns
MaxStopCalls == 3         \* invocations of Close on the pool that only the routine works on
MaxChunks == 2            \* chunks of the longest value given to MetakvBigValueSet

\* ------------------------------------------------------- program constants
CONN_RELEASE_INTERVAL == 5
METAKV_SIZE_LIMIT == 2048

Callers == 1..NumCallers
ConnIds == 1..MaxConns
NoConn == 0               \* the nil *connection
\* The callback of a Scan: its last argument, how often it got an error and
\* how often it was invoked.
NoCallb == [last |-> "none", errs |-> 0, n |-> 0]

VARIABLES
    \* configuration handed to newConnectionPool
    poolSize, poolOverflow, minPoolSizeWM, relConnBatchSize,
    \* connectionPool fields
    connections,    \* chan *connection: the buffered idle connections, in order
    closed,         \* close(cp.connections) has happened
    createsem,      \* number of tokens in chan bool createsem
    curActConns, freeConns,
    stopCh,         \* number of tokens in stopCh (capacity 1)
    ewma,           \* gometrics.EWMA, as far as Rate() depends on it
    \* the sockets: "none" (not dialled), "open", or the path that closed it
    sock,
    \* the stream on each connection
    stream,         \* "idle" | "open" (request sent, no StreamEndResponse yet)
    \* callers (goroutines using the pool or the client)
    pc, op, connectn, newConn, healthy, rhealthy, path, err, resp, endReqs, cb,
    fault,          \* the step at which the client call failed, or "none"
    closedAtEntry,  \* the acquire was entered with cp.connections closed and has
                    \* neither got a connection nor started to wait since
    \* releaseConnsRoutine goroutine
    rel,
    \* the goroutine that calls Close
    cls,
    \* kvutility: the children of the metakv path, by chunk index
    metakv,
    bigset,         \* the MetakvBigValueSet under way: its buf and count
    lastSet,        \* the value of the last MetakvBigValueSet that returned nil
    bigget          \* what MetakvBigValueGet returned since the last metakv.Set

cfgVars == <<poolSize, poolOverflow, minPoolSizeWM, relConnBatchSize>>
poolVars == <<connections, closed, createsem, curActConns, freeConns, stopCh, ewma>>
wireVars == <<stream>>
callerVars == <<pc, op, connectn, newConn, healthy, rhealthy, path, err, resp, endReqs,
               cb, fault, closedAtEntry>>
kvVars == <<metakv, bigset, lastSet, bigget>>
vars == <<cfgVars, poolVars, sock, wireVars, callerVars, rel, cls, kvVars>>

\* ------------------------------------------------------------- kvutility
\* Bytes of the JSON encodings: the quote and two letters.
Quote == 34
Letters == {97, 98}

\* The lengths of the encodings given to MetakvBigValueSet: the shortest
\* string, and for every number of chunks up to MaxChunks the encoding that
\* just fills them and the one that needs one byte more.
EncodingLens ==
    {2, MaxChunks * METAKV_SIZE_LIMIT}
        \cup UNION {{k * METAKV_SIZE_LIMIT, k * METAKV_SIZE_LIMIT + 1} : k \in 1..(MaxChunks - 1)}

\* The values: strings of one letter.
Values == {[i \in 1..(n - 2) |-> ch] : ch \in Letters, n \in EncodingLens}
NoValue == <<-1>>

\* json.Marshal of a string without characters to escape.
Marshal(v) == <<Quote>> \o v \o <<Quote>>

\* json.Unmarshal into a string: one string literal and nothing after it.
Unmarshal(buf) ==
    IF /\ Len(buf) >= 2
       /\ buf[1] = Quote
       /\ buf[Len(buf)] = Quote
       /\ \A i \in 2..(Len(buf) - 1) : buf[i] # Quote
    THEN [ok |-> TRUE, err |-> "nil", value |-> SubSeq(buf, 2, Len(buf) - 1)]
    ELSE [ok |-> FALSE, err |-> "Unmarshal", value |-> NoValue]

NoChildren == [i \in {} |-> <<>>]
\* No MetakvBigValueSet is under way; err is what the last one returned.
NoSet == [pc |-> "idle", buf |-> <<>>, count |-> 0, v |-> NoValue, err |-> "nil"]
NoGet == [ok |-> FALSE, err |-> "none", value |-> NoValue]

\* No value has been set yet.
kvInit ==
    /\ metakv = NoChildren
    /\ bigset = NoSet
    /\ lastSet = NoValue
    /\ bigget = NoGet

max(a, b) == IF a > b THEN a ELSE b

IsOpen(k) == sock[k] = "open"
IsClosed(k) == sock[k] \notin {"none", "open"}
Made == {k \in ConnIds : sock[k] # "none"}
InIdle(k) == \E n \in 1..Len(connections) : connections[n] = k

\* The connections something still refers to once caller c has dropped its
\* references: the idle buffer, the other callers' locals, the routine's local.
IdleRefs(q) == {q[n] : n \in 1..Len(q)}
CallerRefs(c) == {connectn[c], newConn[c]}
RefsExcept(c) ==
    IdleRefs(connections) \cup UNION {CallerRefs(d) : d \in Callers \ {c}}
        \cup {rel.conn}

\* A closed connection nothing refers to is garbage: it leaves the state and
\* its identifier is free for a later dial. refs are the identifiers still
\* referred to.
Collect(s, refs) ==
    [k \in ConnIds |-> IF s[k] \notin {"none", "open"} /\ k \notin refs
                       THEN "none" ELSE s[k]]

\* ------------------------------------------------------------------- Init
\* newConnectionPool: empty channels, zero counters, the routine started.
newConnectionPool ==
    /\ poolSize \in 0..MaxPoolSize
    /\ poolOverflow \in 0..MaxPoolOverflow
    /\ poolSize + poolOverflow >= 1
    /\ minPoolSizeWM \in 0..MaxMinPoolSizeWM
    /\ relConnBatchSize \in 1..MaxRelConnBatchSize
    /\ connections = <<>>
    /\ closed = FALSE
    /\ createsem = 0
    /\ curActConns = 0
    /\ freeConns = 0
    /\ stopCh = 0
    /\ ewma = [positive |-> FALSE]
    /\ rel = [pc |-> "sleep", i |-> 0, act |-> 0, fc |-> 0, numRetConns |-> 0,
              conn |-> NoConn, released |-> 0]

Init ==
    /\ newConnectionPool
    /\ sock = [k \in ConnIds |-> "none"]
    /\ stream = [k \in ConnIds |-> "idle"]
    /\ pc = [c \in Callers |-> "idle"]
    /\ op = [c \in Callers |-> "none"]
    /\ connectn = [c \in Callers |-> NoConn]
    /\ newConn = [c \in Callers |-> NoConn]
    /\ healthy = [c \in Callers |-> TRUE]
    /\ rhealthy = [c \in Callers |-> TRUE]
    /\ path = [c \in Callers |-> ""]
    /\ err = [c \in Callers |-> "nil"]
    /\ resp = [c \in Callers |-> "nil"]
    /\ endReqs = [c \in Callers |-> 0]
    /\ cb = [c \in Callers |-> NoCallb]
    /\ fault = [c \in Callers |-> "none"]
    /\ closedAtEntry = [c \in Callers |-> FALSE]
    /\ cls = [pc |-> "idle", n |-> 0]
    /\ kvInit

\* A pool of poolSize = K whose K connections were all dialled, used and
\* returned healthy, so that all K are idle and no call is under way; ewma
\* has or has not been fed a positive sample meanwhile.
InitRetain ==
    /\ \E K \in 1..MaxConns :
          /\ poolSize = K
          /\ connections = [n \in 1..K |-> n]
          /\ createsem = K
          /\ freeConns = K
          /\ sock = [k \in ConnIds |-> IF k <= K THEN "open" ELSE "none"]
    /\ poolOverflow = 0
    /\ minPoolSizeWM \in 0..RetainMaxWM
    /\ relConnBatchSize \in 1..RetainMaxBatch
    /\ closed = FALSE
    /\ curActConns = 0
    /\ stopCh = 0
    /\ ewma \in {[positive |-> b] : b \in BOOLEAN}
    /\ rel = [pc |-> "sleep", i |-> 0, act |-> 0, fc |-> 0, numRetConns |-> 0,
              conn |-> NoConn, released |-> 0]
    /\ stream = [k \in ConnIds |-> "idle"]
    /\ pc = [c \in Callers |-> "idle"]
    /\ op = [c \in Callers |-> "none"]
    /\ connectn = [c \in Callers |-> NoConn]
    /\ newConn = [c \in Callers |-> NoConn]
    /\ healthy = [c \in Callers |-> TRUE]
    /\ rhealthy = [c \in Callers |-> TRUE]
    /\ path = [c \in Callers |-> ""]
    /\ err = [c \in Callers |-> "nil"]
    /\ resp = [c \in Callers |-> "nil"]
    /\ endReqs = [c \in Callers |-> 0]
    /\ cb = [c \in Callers |-> NoCallb]
    /\ fault = [c \in Callers |-> "none"]
    /\ closedAtEntry = [c \in Callers |-> FALSE]
    /\ cls = [pc |-> "idle", n |-> 0]
    /\ kvInit

\* newConnectionPool with a lower water mark: the pool of Init, its
\* minPoolSizeWM drawn from 0..RetainMaxWM.
InitWM ==
    /\ poolSize \in 0..MaxPoolSize
    /\ poolOverflow \in 0..MaxPoolOverflow
    /\ poolSize + poolOverflow >= 1
    /\ minPoolSizeWM \in 0..RetainMaxWM
    /\ relConnBatchSize \in 1..MaxRelConnBatchSize
    /\ connections = <<>>
    /\ closed = FALSE
    /\ createsem = 0
    /\ curActConns = 0
    /\ freeConns = 0
    /\ stopCh = 0
    /\ ewma = [positive |-> FALSE]
    /\ rel = [pc |-> "sleep", i |-> 0, act |-> 0, fc |-> 0, numRetConns |-> 0,
              conn |-> NoConn, released |-> 0]
    /\ sock = [k \in ConnIds |-> "none"]
    /\ stream = [k \in ConnIds |-> "idle"]
    /\ pc = [c \in Callers |-> "idle"]
    /\ op = [c \in Callers |-> "none"]
    /\ connectn = [c \in Callers |-> NoConn]
    /\ newConn = [c \in Callers |-> NoConn]
    /\ healthy = [c \in Callers |-> TRUE]
    /\ rhealthy = [c \in Callers |-> TRUE]
    /\ path = [c \in Callers |-> ""]
    /\ err = [c \in Callers |-> "nil"]
    /\ resp = [c \in Callers |-> "nil"]
    /\ endReqs = [c \in Callers |-> 0]
    /\ cb = [c \in Callers |-> NoCallb]
    /\ fault = [c \in Callers |-> "none"]
    /\ closedAtEntry = [c \in Callers |-> FALSE]
    /\ cls = [pc |-> "idle", n |-> 0]
    /\ kvInit

\* ------------------------------------------------------- shared helpers
\* Locals of a caller that has no call in progress.
Rest(c) ==
    /\ pc' = [pc EXCEPT ![c] = "idle"]
    /\ op' = [op EXCEPT ![c] = "none"]
    /\ connectn' = [connectn EXCEPT ![c] = NoConn]
    /\ newConn' = [newConn EXCEPT ![c] = NoConn]
    /\ healthy' = [healthy EXCEPT ![c] = TRUE]
    /\ rhealthy' = [rhealthy EXCEPT ![c] = TRUE]
    /\ path' = [path EXCEPT ![c] = ""]
    /\ err' = [err EXCEPT ![c] = "nil"]
    /\ resp' = [resp EXCEPT ![c] = "nil"]
    /\ endReqs' = [endReqs EXCEPT ![c] = 0]
    /\ cb' = [cb EXCEPT ![c] = NoCallb]
    /\ fault' = [fault EXCEPT ![c] = "none"]
    /\ closedAtEntry' = [closedAtEntry EXCEPT ![c] = FALSE]

\* connectn, ok = <-cp.connections with ok = true: the head of the buffer.
RecvConn(c, p) ==
    /\ Len(connections) > 0
    /\ connections' = Tail(connections)
    /\ connectn' = [connectn EXCEPT ![c] = Head(connections)]
    /\ path' = [path EXCEPT ![c] = p]
    /\ pc' = [pc EXCEPT ![c] = "get_free"]
    /\ closedAtEntry' = [closedAtEntry EXCEPT ![c] = FALSE]
    /\ UNCHANGED <<cfgVars, kvVars, closed, createsem, curActConns, freeConns, stopCh, ewma,
                   sock, wireVars, op, newConn, healthy, rhealthy, err, resp, endReqs, cb,
                   fault, rel, cls>>

\* connectn, ok = <-cp.connections with ok = false: closed and drained.
RecvClosed(c, p) ==
    /\ Len(connections) = 0
    /\ closed
    /\ path' = [path EXCEPT ![c] = p]
    /\ err' = [err EXCEPT ![c] = "ErrorClosedPool"]
    /\ pc' = [pc EXCEPT ![c] = "get_ret"]
    /\ UNCHANGED <<cfgVars, kvVars, poolVars, sock, wireVars, op, connectn, newConn, healthy, rhealthy,
                   resp, endReqs, cb, fault, closedAtEntry, rel, cls>>

\* ---------------------------------------------------------- GetWithTimeout
\* Entry: path = "short-circuit" (line 155).
GetEnter(c, o) ==
    /\ pc[c] = "idle"
    /\ pc' = [pc EXCEPT ![c] = "get_short"]
    /\ op' = [op EXCEPT ![c] = o]
    /\ path' = [path EXCEPT ![c] = "short-circuit"]
    /\ closedAtEntry' = [closedAtEntry EXCEPT ![c] = closed]
    /\ UNCHANGED <<cfgVars, kvVars, poolVars, sock, wireVars, connectn, newConn, healthy, rhealthy, err,
                   resp, endReqs, cb, fault, rel, cls>>

\* GetShortCircuit of an acquire that never tries the non-blocking receive
\* and always goes on to wait.
GetShortCircuitSkip(c) ==
    /\ pc[c] = "get_short"
    /\ pc' = [pc EXCEPT ![c] = "get_avail1"]
    /\ closedAtEntry' = [closedAtEntry EXCEPT ![c] = FALSE]
    /\ UNCHANGED <<cfgVars, kvVars, poolVars, sock, wireVars, op, connectn, newConn, healthy,
                   rhealthy, path, err, resp, endReqs, cb, fault, rel, cls>>

\* GetShortCircuit of an acquire whose fast path takes a closed channel for
\* an empty one and goes on to wait.
GetShortCircuitBlind(c) ==
    /\ pc[c] = "get_short"
    /\ \/ RecvConn(c, "short-circuit")
       \/ /\ Len(connections) = 0
          /\ pc' = [pc EXCEPT ![c] = "get_avail1"]
          /\ closedAtEntry' = [closedAtEntry EXCEPT ![c] = FALSE]
          /\ UNCHANGED <<cfgVars, kvVars, poolVars, sock, wireVars, op, connectn, newConn, healthy,
                         rhealthy, path, err, resp, endReqs, cb, fault, rel, cls>>

\* Lines 158-168: the non-blocking select.
GetShortCircuit(c) ==
    /\ pc[c] = "get_short"
    /\ \/ RecvConn(c, "short-circuit")
       \/ RecvClosed(c, "short-circuit")
       \/ /\ Len(connections) = 0
          /\ ~closed
          /\ pc' = [pc EXCEPT ![c] = "get_avail1"]
          /\ closedAtEntry' = [closedAtEntry EXCEPT ![c] = FALSE]
          /\ UNCHANGED <<cfgVars, kvVars, poolVars, sock, wireVars, op, connectn, newConn, healthy,
                         rhealthy, path, err, resp, endReqs, cb, fault, rel, cls>>

\* Lines 174-188: wait for a connection until the availTimeout timer fires.
GetAvail1(c) ==
    /\ pc[c] = "get_avail1"
    /\ \/ RecvConn(c, "avail1")
       \/ RecvClosed(c, "avail1")
       \/ /\ pc' = [pc EXCEPT ![c] = "get_avail2"]
          /\ UNCHANGED <<cfgVars, kvVars, poolVars, sock, wireVars, op, connectn, newConn, healthy,
                         rhealthy, path, err, resp, endReqs, cb, fault, closedAtEntry, rel, cls>>

\* GetAvail2 of a pool whose createsem has no capacity: the send on
\* cp.createsem never blocks.
GetAvail2Uncapped(c) ==
    /\ pc[c] = "get_avail2"
    /\ \/ RecvConn(c, "avail2")
       \/ RecvClosed(c, "avail2")
       \/ /\ createsem' = createsem + 1
          /\ path' = [path EXCEPT ![c] = "create"]
          /\ pc' = [pc EXCEPT ![c] = "get_mk"]
          /\ UNCHANGED <<cfgVars, kvVars, connections, closed, curActConns, freeConns, stopCh,
                         ewma, sock, wireVars, op, connectn, newConn, healthy, rhealthy, err,
                         resp, endReqs, cb, fault, closedAtEntry, rel, cls>>
       \/ /\ err' = [err EXCEPT ![c] = "ErrorPoolTimeout"]
          /\ pc' = [pc EXCEPT ![c] = "get_ret"]
          /\ UNCHANGED <<cfgVars, kvVars, poolVars, sock, wireVars, op, connectn, newConn, healthy,
                         rhealthy, path, resp, endReqs, cb, fault, closedAtEntry, rel, cls>>

\* GetAvail2 of an acquire that dials without taking a create permit.
GetAvail2NoPermit(c) ==
    /\ pc[c] = "get_avail2"
    /\ \/ RecvConn(c, "avail2")
       \/ RecvClosed(c, "avail2")
       \/ /\ createsem < poolSize + poolOverflow
          /\ UNCHANGED createsem
          /\ path' = [path EXCEPT ![c] = "create"]
          /\ pc' = [pc EXCEPT ![c] = "get_mk"]
          /\ UNCHANGED <<cfgVars, kvVars, connections, closed, curActConns, freeConns, stopCh,
                         ewma, sock, wireVars, op, connectn, newConn, healthy, rhealthy, err,
                         resp, endReqs, cb, fault, closedAtEntry, rel, cls>>
       \/ /\ err' = [err EXCEPT ![c] = "ErrorPoolTimeout"]
          /\ pc' = [pc EXCEPT ![c] = "get_ret"]
          /\ UNCHANGED <<cfgVars, kvVars, poolVars, sock, wireVars, op, connectn, newConn, healthy,
                         rhealthy, path, resp, endReqs, cb, fault, closedAtEntry, rel, cls>>

\* Lines 189-217: a connection, a create permit, or the timer for d.
GetAvail2(c) ==
    /\ pc[c] = "get_avail2"
    /\ \/ RecvConn(c, "avail2")
       \/ RecvClosed(c, "avail2")
       \/ /\ createsem < poolSize + poolOverflow
          /\ createsem' = createsem + 1
          /\ path' = [path EXCEPT ![c] = "create"]
          /\ pc' = [pc EXCEPT ![c] = "get_mk"]
          /\ UNCHANGED <<cfgVars, kvVars, connections, closed, curActConns, freeConns, stopCh,
                         ewma, sock, wireVars, op, connectn, newConn, healthy, rhealthy, err,
                         resp, endReqs, cb, fault, closedAtEntry, rel, cls>>
       \/ /\ err' = [err EXCEPT ![c] = "ErrorPoolTimeout"]
          /\ pc' = [pc EXCEPT ![c] = "get_ret"]
          /\ UNCHANGED <<cfgVars, kvVars, poolVars, sock, wireVars, op, connectn, newConn, healthy,
                         rhealthy, path, resp, endReqs, cb, fault, closedAtEntry, rel, cls>>

\* mkConn (defaultMkConn): dials the next connection, or fails.
NextConn == CHOOSE k \in ConnIds \ Made : \A j \in ConnIds \ Made : k <= j

\* A fresh connection: no request sent on it.
Dialled(k) ==
    /\ sock' = [sock EXCEPT ![k] = "open"]
    /\ stream' = [stream EXCEPT ![k] = "idle"]

\* Line 205: connectn, err := cp.mkConn(cp.host).
GetMkConn(c) ==
    /\ pc[c] = "get_mk"
    /\ \/ /\ Made # ConnIds
          /\ Dialled(NextConn)
          /\ connectn' = [connectn EXCEPT ![c] = NextConn]
          /\ pc' = [pc EXCEPT ![c] = "get_act"]
          /\ UNCHANGED err
       \/ /\ err' = [err EXCEPT ![c] = "DialError"]
          /\ pc' = [pc EXCEPT ![c] = "get_unsem"]
          /\ UNCHANGED <<sock, wireVars, connectn>>
    /\ UNCHANGED <<cfgVars, kvVars, poolVars, op, newConn, healthy, rhealthy, path, resp,
                   endReqs, cb, fault, closedAtEntry, rel, cls>>

\* GetReleaseSem of a GetWithTimeout that returns the dial error with its
\* create permit still taken.
GetKeepSem(c) ==
    /\ pc[c] = "get_unsem"
    /\ UNCHANGED createsem
    /\ pc' = [pc EXCEPT ![c] = "get_ret"]
    /\ UNCHANGED <<cfgVars, kvVars, connections, closed, curActConns, freeConns, stopCh, ewma,
                   sock, wireVars, op, connectn, newConn, healthy, rhealthy, path, err, resp,
                   endReqs, cb, fault, closedAtEntry, rel, cls>>

\* Line 208: <-cp.createsem after a failed dial.
GetReleaseSem(c) ==
    /\ pc[c] = "get_unsem"
    /\ createsem > 0
    /\ createsem' = createsem - 1
    /\ pc' = [pc EXCEPT ![c] = "get_ret"]
    /\ UNCHANGED <<cfgVars, kvVars, connections, closed, curActConns, freeConns, stopCh, ewma,
                   sock, wireVars, op, connectn, newConn, healthy, rhealthy, path, err, resp,
                   endReqs, cb, fault, closedAtEntry, rel, cls>>

\* GetDecFree of a GetWithTimeout that leaves freeConns as it is.
GetDecFreeNoDecrement(c) ==
    /\ pc[c] = "get_free"
    /\ UNCHANGED freeConns
    /\ pc' = [pc EXCEPT ![c] = "get_act"]
    /\ UNCHANGED <<cfgVars, kvVars, connections, closed, createsem, curActConns, stopCh, ewma,
                   sock, wireVars, op, connectn, newConn, healthy, rhealthy, path, err, resp,
                   endReqs, cb, fault, closedAtEntry, rel, cls>>

\* Lines 164, 181, 196: atomic.AddInt32(&cp.freeConns, -1).
GetDecFree(c) ==
    /\ pc[c] = "get_free"
    /\ freeConns' = freeConns - 1
    /\ pc' = [pc EXCEPT ![c] = "get_act"]
    /\ UNCHANGED <<cfgVars, kvVars, connections, closed, createsem, curActConns, stopCh, ewma,
                   sock, wireVars, op, connectn, newConn, healthy, rhealthy, path, err, resp,
                   endReqs, cb, fault, closedAtEntry, rel, cls>>

\* Lines 165, 182, 197, 210: atomic.AddInt32(&cp.curActConns, 1).
GetIncAct(c) ==
    /\ pc[c] = "get_act"
    /\ curActConns' = curActConns + 1
    /\ pc' = [pc EXCEPT ![c] = "get_ret"]
    /\ UNCHANGED <<cfgVars, kvVars, connections, closed, createsem, freeConns, stopCh, ewma,
                   sock, wireVars, op, connectn, newConn, healthy, rhealthy, path, err, resp,
                   endReqs, cb, fault, closedAtEntry, rel, cls>>

\* GetWithTimeout has returned (connectn, err) to a direct user of the pool;
\* the deferred ConnPoolCallback has fired with (path, err).
GetReturned(c) ==
    /\ pc[c] = "get_ret"
    /\ op[c] = "pool"
    /\ IF err[c] = "nil"
       THEN /\ pc' = [pc EXCEPT ![c] = "held"]
            /\ path' = [path EXCEPT ![c] = ""]
            /\ UNCHANGED <<op, connectn, newConn, healthy, rhealthy, err, resp, endReqs, cb, fault, closedAtEntry>>
       ELSE Rest(c)
    /\ UNCHANGED <<cfgVars, kvVars, poolVars, sock, wireVars, rel, cls>>

\* ------------------------------------------------------------------ Return
\* Lines 238-249 and 270: the branch Return takes for its arguments (the
\* receiver cp is never nil here, so the cp == nil branch is not taken).
ReturnBranch(k, h) ==
    IF k = NoConn THEN "ret_defer"
    ELSE IF h THEN "ret_select"
    ELSE "ret_sem"

\* A direct user of the pool calls cp.Return(connectn, h).
ReturnCall(c, h) ==
    /\ pc[c] = "held"
    /\ rhealthy' = [rhealthy EXCEPT ![c] = h]
    /\ err' = [err EXCEPT ![c] = "nil"]
    /\ pc' = [pc EXCEPT ![c] = ReturnBranch(connectn[c], h)]
    /\ UNCHANGED <<cfgVars, kvVars, poolVars, sock, wireVars, op, connectn, newConn, healthy,
                   path, resp, endReqs, cb, fault, closedAtEntry, rel, cls>>

\* A direct user of the pool calls cp.Return(nil, h): it has no connection
\* (lines 239-241 return at once, and the deferred decrement runs).
ReturnNil(c, h) ==
    /\ pc[c] = "idle"
    /\ curActConns > -MaxNilReturns
    /\ op' = [op EXCEPT ![c] = "pool"]
    /\ rhealthy' = [rhealthy EXCEPT ![c] = h]
    /\ pc' = [pc EXCEPT ![c] = ReturnBranch(NoConn, h)]
    /\ UNCHANGED <<cfgVars, kvVars, poolVars, sock, wireVars, connectn, newConn, healthy,
                   path, err, resp, endReqs, cb, fault, closedAtEntry, rel, cls>>

\* A goroutine blocked in the select of line 174 or line 189 is a waiting
\* receiver of cp.connections.
Receiving(d) == pc[d] \in {"get_avail1", "get_avail2"}

\* ReturnSelect of a Return without the deferred recover: the panic of the
\* send on the closed channel reaches the caller, the connection stays open.
ReturnSelectNoRecover(c) ==
    /\ pc[c] = "ret_select"
    /\ \/ /\ closed
          /\ UNCHANGED sock
          /\ pc' = [pc EXCEPT ![c] = "ret_panic"]
          /\ UNCHANGED <<connections, connectn, path>>
       \/ /\ ~closed
          /\ Len(connections) < poolSize
          /\ connections' = Append(connections, connectn[c])
          /\ pc' = [pc EXCEPT ![c] = "ret_free"]
          /\ UNCHANGED <<sock, connectn, path>>
       \/ /\ ~closed
          /\ poolSize = 0
          /\ \E d \in Callers :
                /\ Receiving(d)
                /\ connectn' = [connectn EXCEPT ![d] = connectn[c]]
                /\ path' = [path EXCEPT ![d] =
                              IF pc[d] = "get_avail1" THEN "avail1" ELSE "avail2"]
                /\ pc' = [pc EXCEPT ![c] = "ret_free", ![d] = "get_free"]
          /\ UNCHANGED <<connections, sock>>
       \/ /\ ~closed
          /\ Len(connections) = poolSize
          /\ pc' = [pc EXCEPT ![c] = "ret_sem"]
          /\ UNCHANGED <<connections, sock, connectn, path>>
    /\ UNCHANGED <<cfgVars, kvVars, closed, createsem, curActConns, freeConns, stopCh, ewma,
                   wireVars, op, newConn, healthy, rhealthy, err, resp, endReqs, cb, fault, closedAtEntry, rel, cls>>

\* Lines 260-268, healthy: the select with the send and the default case; a
\* send on the closed channel panics and the deferred recover closes the
\* connection (lines 250-257).
ReturnSelect(c) ==
    /\ pc[c] = "ret_select"
    /\ \/ /\ closed
          /\ sock' = [sock EXCEPT ![connectn[c]] = "recover"]
          /\ pc' = [pc EXCEPT ![c] = "ret_defer"]
          /\ UNCHANGED <<connections, connectn, path>>
       \/ /\ ~closed
          /\ Len(connections) < poolSize
          /\ connections' = Append(connections, connectn[c])
          /\ pc' = [pc EXCEPT ![c] = "ret_free"]
          /\ UNCHANGED <<sock, connectn, path>>
       \/ /\ ~closed
          /\ poolSize = 0
          /\ \E d \in Callers :
                /\ Receiving(d)
                /\ connectn' = [connectn EXCEPT ![d] = connectn[c]]
                /\ path' = [path EXCEPT ![d] =
                              IF pc[d] = "get_avail1" THEN "avail1" ELSE "avail2"]
                /\ pc' = [pc EXCEPT ![c] = "ret_free", ![d] = "get_free"]
          /\ UNCHANGED <<connections, sock>>
       \/ /\ ~closed
          /\ Len(connections) = poolSize
          /\ pc' = [pc EXCEPT ![c] = "ret_sem"]
          /\ UNCHANGED <<connections, sock, connectn, path>>
    /\ UNCHANGED <<cfgVars, kvVars, closed, createsem, curActConns, freeConns, stopCh, ewma,
                   wireVars, op, newConn, healthy, rhealthy, err, resp, endReqs, cb, fault, closedAtEntry, rel, cls>>

\* Line 263: atomic.AddInt32(&cp.freeConns, 1).
ReturnIncFree(c) ==
    /\ pc[c] = "ret_free"
    /\ freeConns' = freeConns + 1
    /\ pc' = [pc EXCEPT ![c] = "ret_defer"]
    /\ UNCHANGED <<cfgVars, kvVars, connections, closed, createsem, curActConns, stopCh, ewma,
                   sock, wireVars, op, connectn, newConn, healthy, rhealthy, path, err,
                   resp, endReqs, cb, fault, closedAtEntry, rel, cls>>

\* ReturnReleaseSem of a Return that keeps the create permit of the
\* connection it closes.
ReturnKeepSem(c) ==
    /\ pc[c] = "ret_sem"
    /\ UNCHANGED createsem
    /\ pc' = [pc EXCEPT ![c] = "ret_close"]
    /\ UNCHANGED <<cfgVars, kvVars, connections, closed, curActConns, freeConns, stopCh, ewma,
                   sock, wireVars, op, connectn, newConn, healthy, rhealthy, path, err,
                   resp, endReqs, cb, fault, closedAtEntry, rel, cls>>

\* Lines 266 and 272: <-cp.createsem (blocks while createsem is empty).
ReturnReleaseSem(c) ==
    /\ pc[c] = "ret_sem"
    /\ createsem > 0
    /\ createsem' = createsem - 1
    /\ pc' = [pc EXCEPT ![c] = "ret_close"]
    /\ UNCHANGED <<cfgVars, kvVars, connections, closed, curActConns, freeConns, stopCh, ewma,
                   sock, wireVars, op, connectn, newConn, healthy, rhealthy, path, err,
                   resp, endReqs, cb, fault, closedAtEntry, rel, cls>>

\* Lines 267 and 273: connectn.conn.Close().
ReturnClose(c) ==
    /\ pc[c] = "ret_close"
    /\ sock' = [sock EXCEPT ![connectn[c]] =
                  IF rhealthy[c] THEN "overflow" ELSE "unhealthy"]
    /\ pc' = [pc EXCEPT ![c] = "ret_defer"]
    /\ UNCHANGED <<cfgVars, kvVars, poolVars, wireVars, op, connectn, newConn, healthy, rhealthy,
                   path, err, resp, endReqs, cb, fault, closedAtEntry, rel, cls>>

\* ReturnDefer of a Return that leaves curActConns as it is.
ReturnDeferNoDecrement(c) ==
    /\ pc[c] = "ret_defer"
    /\ UNCHANGED curActConns
    /\ pc' = [pc EXCEPT ![c] = "ret_done"]
    /\ UNCHANGED <<cfgVars, kvVars, connections, closed, createsem, freeConns, stopCh, ewma,
                   sock, wireVars, op, connectn, newConn, healthy, rhealthy, path, err,
                   resp, endReqs, cb, fault, closedAtEntry, rel, cls>>

\* Line 238: the deferred atomic.AddInt32(&cp.curActConns, -1).
ReturnDefer(c) ==
    /\ pc[c] = "ret_defer"
    /\ curActConns' = curActConns - 1
    /\ pc' = [pc EXCEPT ![c] = "ret_done"]
    /\ UNCHANGED <<cfgVars, kvVars, connections, closed, createsem, freeConns, stopCh, ewma,
                   sock, wireVars, op, connectn, newConn, healthy, rhealthy, path, err,
                   resp, endReqs, cb, fault, closedAtEntry, rel, cls>>

\* Return is over, and with it the call that made it: the caller drops its
\* reference to the connection.
ReturnReturned(c) ==
    /\ pc[c] = "ret_done"
    /\ sock' = Collect(sock, RefsExcept(c))
    /\ Rest(c)
    /\ UNCHANGED <<cfgVars, kvVars, poolVars, wireVars, rel, cls>>

\* ------------------------------------------------------------------- Renew
RenewCall(c) ==
    /\ pc[c] = "held"
    /\ err' = [err EXCEPT ![c] = "nil"]
    /\ pc' = [pc EXCEPT ![c] = "renew_mk"]
    /\ UNCHANGED <<cfgVars, kvVars, poolVars, sock, wireVars, op, connectn, newConn, healthy,
                   rhealthy, path, resp, endReqs, cb, fault, closedAtEntry, rel, cls>>

\* Line 223: newConn, err := cp.mkConn(cp.host).
RenewMkConn(c) ==
    /\ pc[c] = "renew_mk"
    /\ \/ /\ Made # ConnIds
          /\ Dialled(NextConn)
          /\ newConn' = [newConn EXCEPT ![c] = NextConn]
          /\ pc' = [pc EXCEPT ![c] = "renew_close"]
          /\ UNCHANGED err
       \/ /\ err' = [err EXCEPT ![c] = "DialError"]
          /\ pc' = [pc EXCEPT ![c] = "held"]
          /\ UNCHANGED <<sock, wireVars, newConn>>
    /\ UNCHANGED <<cfgVars, kvVars, poolVars, op, connectn, healthy, rhealthy, path,
                   resp, endReqs, cb, fault, closedAtEntry, rel, cls>>

\* RenewClose of a Renew that gives back the permit of the connection it
\* closes, as Return does for a connection it discards.
RenewCloseReleaseSem(c) ==
    /\ pc[c] = "renew_close"
    /\ createsem > 0
    /\ createsem' = createsem - 1
    /\ sock' = Collect([sock EXCEPT ![connectn[c]] = "renew"],
                        RefsExcept(c) \cup {newConn[c]})
    /\ connectn' = [connectn EXCEPT ![c] = newConn[c]]
    /\ newConn' = [newConn EXCEPT ![c] = NoConn]
    /\ pc' = [pc EXCEPT ![c] = "held"]
    /\ UNCHANGED <<cfgVars, kvVars, connections, closed, curActConns, freeConns, stopCh, ewma,
                   wireVars, op, healthy, rhealthy, path, err, resp,
                   endReqs, cb, fault, closedAtEntry, rel, cls>>

\* Lines 226-227: conn.conn.Close(); conn = newConn.
RenewClose(c) ==
    /\ pc[c] = "renew_close"
    /\ sock' = Collect([sock EXCEPT ![connectn[c]] = "renew"],
                        RefsExcept(c) \cup {newConn[c]})
    /\ connectn' = [connectn EXCEPT ![c] = newConn[c]]
    /\ newConn' = [newConn EXCEPT ![c] = NoConn]
    /\ pc' = [pc EXCEPT ![c] = "held"]
    /\ UNCHANGED <<cfgVars, kvVars, poolVars, wireVars, op, healthy, rhealthy, path, err, resp,
                   endReqs, cb, fault, closedAtEntry, rel, cls>>

\* ---------------------------------------------------- releaseConnsRoutine
\* The routine is back at time.Sleep (line 326) with its locals dead.
\* rel.released counts the connections the running releaseConns call has
\* closed.
RoutineSleep(i) ==
    rel' = [pc |-> "sleep", i |-> i, act |-> 0, fc |-> 0, numRetConns |-> 0,
            conn |-> NoConn, released |-> 0]

\* gometrics EWMA (external library): the rate is a weighted mean of the
\* samples fed to Update, so it is 0 while every sample was 0 and otherwise it
\* lies between 0 and the largest sample, which is at most one per caller.
\* ewma keeps whether a positive sample was fed; int32(Rate()) is any value
\* of ewmaRates.
ewmaUpdate(act) == [positive |-> ewma.positive \/ act > 0]
ewmaRates == IF ewma.positive THEN 0..NumCallers ELSE {0}

\* RoutineTick of a routine whose select has no stopCh case.
RoutineTickDeaf ==
    /\ rel.pc = "sleep"
    /\ ewma' = ewmaUpdate(curActConns)
    /\ IF rel.i = CONN_RELEASE_INTERVAL - 1
       THEN rel' = [rel EXCEPT !.pc = "retain_act"]
       ELSE RoutineSleep((rel.i + 1) % CONN_RELEASE_INTERVAL)
    /\ UNCHANGED <<cfgVars, kvVars, connections, closed, createsem, curActConns, freeConns,
                   stopCh, sock, wireVars, callerVars, cls>>

\* Lines 326-353: one pass of the loop that does not shrink, or the entry of
\* numConnsToRetain on every CONN_RELEASE_INTERVAL-th pass.
RoutineTick ==
    /\ rel.pc = "sleep"
    /\ \/ /\ stopCh > 0
          /\ stopCh' = 0
          /\ rel' = [rel EXCEPT !.pc = "stopped"]
          /\ UNCHANGED ewma
       \/ /\ stopCh = 0
          /\ ewma' = ewmaUpdate(curActConns)
          /\ IF rel.i = CONN_RELEASE_INTERVAL - 1
             THEN rel' = [rel EXCEPT !.pc = "retain_act"]
             ELSE RoutineSleep((rel.i + 1) % CONN_RELEASE_INTERVAL)
          /\ UNCHANGED stopCh
    /\ UNCHANGED <<cfgVars, kvVars, connections, closed, createsem, curActConns, freeConns,
                   sock, wireVars, callerVars, cls>>

\* numConnsToRetain, line 286: act := atomic.LoadInt32(&cp.curActConns).
RetainLoadAct ==
    /\ rel.pc = "retain_act"
    /\ rel' = [rel EXCEPT !.pc = "retain_fc", !.act = curActConns]
    /\ UNCHANGED <<cfgVars, kvVars, poolVars, sock, wireVars, callerVars, cls>>

\* numConnsToRetain, lines 285-297, for the rate avg and the loaded fc.
numConnsToRetain(avg, act, fc) ==
    LET num == max(minPoolSizeWM, max(act, avg))
        totalConns == act + fc
    IN  IF totalConns - relConnBatchSize >= num
        THEN <<totalConns - relConnBatchSize, TRUE>>
        ELSE <<totalConns, FALSE>>

\* Line 289 to the decision of line 341.
RetainDecide ==
    /\ rel.pc = "retain_fc"
    /\ \E avg \in ewmaRates :
          LET r == numConnsToRetain(avg, rel.act, freeConns)
          IN  IF r[2]
              THEN rel' = [rel EXCEPT !.pc = "rel_fc", !.numRetConns = r[1],
                                      !.act = 0]
              ELSE RoutineSleep(0)
    /\ UNCHANGED <<cfgVars, kvVars, poolVars, sock, wireVars, callerVars, cls>>

\* releaseConns, line 302: fc := atomic.LoadInt32(&cp.freeConns).
ReleaseLoadFc ==
    /\ rel.pc = "rel_fc"
    /\ rel' = [rel EXCEPT !.pc = "rel_act", !.fc = freeConns]
    /\ UNCHANGED <<cfgVars, kvVars, poolVars, sock, wireVars, callerVars, cls>>

\* Lines 303-305 and 316-318: load act, then go on or leave the loop.
ReleaseLoadAct ==
    /\ rel.pc = "rel_act"
    /\ IF curActConns + rel.fc > rel.numRetConns /\ rel.fc > 0
       THEN rel' = [rel EXCEPT !.pc = "rel_recv", !.fc = 0]
       ELSE RoutineSleep(0)
    /\ UNCHANGED <<cfgVars, kvVars, poolVars, sock, wireVars, callerVars, cls>>

\* ReleaseRecv of a routine that reads the head of the buffer and leaves it
\* there.
ReleaseRecvPeek ==
    /\ rel.pc = "rel_recv"
    /\ \/ /\ Len(connections) > 0
          /\ UNCHANGED connections
          /\ rel' = [rel EXCEPT !.pc = "rel_dec", !.conn = Head(connections)]
       \/ /\ Len(connections) = 0
          /\ closed
          /\ RoutineSleep(0)
          /\ UNCHANGED connections
       \/ /\ Len(connections) = 0
          /\ ~closed
          /\ rel' = [rel EXCEPT !.pc = "rel_fc"]
          /\ UNCHANGED connections
    /\ UNCHANGED <<cfgVars, kvVars, closed, createsem, curActConns, freeConns, stopCh, ewma,
                   sock, wireVars, callerVars, cls>>

\* Lines 306-315: the non-blocking receive. The break of the default case
\* leaves the select, not the for loop: the loop starts over.
ReleaseRecv ==
    /\ rel.pc = "rel_recv"
    /\ \/ /\ Len(connections) > 0
          /\ connections' = Tail(connections)
          /\ rel' = [rel EXCEPT !.pc = "rel_dec", !.conn = Head(connections)]
       \/ /\ Len(connections) = 0
          /\ closed
          /\ RoutineSleep(0)
          /\ UNCHANGED connections
       \/ /\ Len(connections) = 0
          /\ ~closed
          /\ rel' = [rel EXCEPT !.pc = "rel_fc"]
          /\ UNCHANGED connections
    /\ UNCHANGED <<cfgVars, kvVars, closed, createsem, curActConns, freeConns, stopCh, ewma,
                   sock, wireVars, callerVars, cls>>

\* Line 311: atomic.AddInt32(&cp.freeConns, -1).
ReleaseDecFree ==
    /\ rel.pc = "rel_dec"
    /\ freeConns' = freeConns - 1
    /\ rel' = [rel EXCEPT !.pc = "rel_close"]
    /\ UNCHANGED <<cfgVars, kvVars, connections, closed, createsem, curActConns, stopCh, ewma,
                   sock, wireVars, callerVars, cls>>

\* Line 312: conn.conn.Close(); no permit is taken from createsem.
ReleaseClose ==
    /\ rel.pc = "rel_close"
    /\ sock' = Collect([sock EXCEPT ![rel.conn] = "shrink"],
                        IdleRefs(connections) \cup UNION {CallerRefs(d) : d \in Callers})
    /\ rel' = [rel EXCEPT !.pc = "rel_fc", !.conn = NoConn,
                          !.released = rel.released + 1]
    /\ UNCHANGED <<cfgVars, kvVars, poolVars, wireVars, callerVars, cls>>

\* ------------------------------------------------------------------- Close
\* Close is called, for at most the k-th time.
CloseCallUpTo(k) ==
    /\ cls.pc = "idle"
    /\ cls.n < k
    /\ cls' = [pc |-> "stop", n |-> cls.n + 1]
    /\ UNCHANGED <<cfgVars, kvVars, poolVars, sock, wireVars, callerVars, rel>>

CloseCall == CloseCallUpTo(MaxCloses)

\* Line 133: cp.stopCh <- true (blocks while the one-slot buffer is full).
CloseStop ==
    /\ cls.pc = "stop"
    /\ stopCh = 0
    /\ stopCh' = 1
    /\ cls' = [cls EXCEPT !.pc = "close"]
    /\ UNCHANGED <<cfgVars, kvVars, connections, closed, createsem, curActConns, freeConns,
                   ewma, sock, wireVars, callerVars, rel>>

\* CloseChan of a Close without the deferred recover: the panic of closing a
\* closed channel leaves Close.
CloseChanUnrecovered ==
    /\ cls.pc = "close"
    /\ closed' = TRUE
    /\ cls' = [cls EXCEPT !.pc = IF closed THEN "panic" ELSE "drain"]
    /\ UNCHANGED <<cfgVars, kvVars, connections, createsem, curActConns, freeConns, stopCh,
                   ewma, sock, wireVars, callerVars, rel>>

\* Line 134: close(cp.connections); closing it again panics and the deferred
\* recover (lines 127-132) ends Close.
CloseChan ==
    /\ cls.pc = "close"
    /\ closed' = TRUE
    /\ cls' = [cls EXCEPT !.pc = IF closed THEN "idle" ELSE "drain"]
    /\ UNCHANGED <<cfgVars, kvVars, connections, createsem, curActConns, freeConns, stopCh,
                   ewma, sock, wireVars, callerVars, rel>>

\* CloseDrain of a Close that empties the buffer and closes nothing.
CloseDrainKeepOpen ==
    /\ cls.pc = "drain"
    /\ IF Len(connections) > 0
       THEN /\ connections' = Tail(connections)
            /\ UNCHANGED <<cls, sock>>
       ELSE /\ cls' = [cls EXCEPT !.pc = "idle"]
            /\ UNCHANGED <<connections, sock>>
    /\ UNCHANGED <<cfgVars, kvVars, closed, createsem, curActConns, freeConns, stopCh, ewma,
                   wireVars, callerVars, rel>>

\* Lines 135-139: receive every buffered connection and close it.
CloseDrain ==
    /\ cls.pc = "drain"
    /\ IF Len(connections) > 0
       THEN /\ connections' = Tail(connections)
            /\ sock' = Collect([sock EXCEPT ![Head(connections)] = "Close"],
                                IdleRefs(Tail(connections)) \cup {rel.conn}
                                    \cup UNION {CallerRefs(d) : d \in Callers})
            /\ UNCHANGED cls
       ELSE /\ cls' = [cls EXCEPT !.pc = "idle"]
            /\ UNCHANGED <<connections, sock>>
    /\ UNCHANGED <<cfgVars, kvVars, closed, createsem, curActConns, freeConns, stopCh, ewma,
                   wireVars, callerVars, rel>>

\* ------------------------------------------------------------ the client
\* client.go: Statistics, Scan and ScanAll take a connection with pool.Get,
\* talk to the server over it and give it back with a deferred pool.Return.
ClientOps == {"Statistics", "Scan", "ScanAll"}
Scans == {"Scan", "ScanAll"}

\* What pkt.Receive can give: a frame, or an error.
Frames == {"StatisticsResponse", "StatisticsResponseErr", "ResponseStream",
           "StreamEndResponse"}
RecvErrs == {"EOF", "TransportError"}

\* Positions of a client call between its pool.Get and its pool.Return.
InCall == {"cl_send", "st_recv1", "st_recv2", "sc_recv", "cs_send", "cs_drain"}

\* Deferred of a function that made no defer statement: it returns without
\* calling Return.
DeferredNever(c) == "ret_done"

\* The function returns: its deferred c.pool.Return(connectn, healthy) runs,
\* with the arguments the defer statement evaluated.
Deferred(c) == ReturnBranch(connectn[c], rhealthy[c])

\* ClientGot of a call whose defer statement hands Return healthy = false.
ClientGotUnhealthy(c) ==
    /\ pc[c] = "get_ret"
    /\ op[c] \in ClientOps
    /\ IF err[c] # "nil"
       THEN Rest(c)
       ELSE /\ healthy' = [healthy EXCEPT ![c] = TRUE]
            /\ rhealthy' = [rhealthy EXCEPT ![c] = FALSE]
            /\ path' = [path EXCEPT ![c] = ""]
            /\ pc' = [pc EXCEPT ![c] = "cl_send"]
            /\ UNCHANGED <<op, connectn, newConn, err, resp, endReqs, cb, fault, closedAtEntry>>
    /\ UNCHANGED <<cfgVars, kvVars, poolVars, sock, wireVars, rel, cls>>

\* Lines 80-85, 143-148, 186-191: the result of pool.Get; on an error the
\* call returns it. Otherwise healthy := true, and the defer statement
\* evaluates its arguments connectn and healthy there and then.
ClientGot(c) ==
    /\ pc[c] = "get_ret"
    /\ op[c] \in ClientOps
    /\ IF err[c] # "nil"
       THEN Rest(c)
       ELSE /\ healthy' = [healthy EXCEPT ![c] = TRUE]
            /\ rhealthy' = [rhealthy EXCEPT ![c] = healthy'[c]]
            /\ path' = [path EXCEPT ![c] = ""]
            /\ pc' = [pc EXCEPT ![c] = "cl_send"]
            /\ UNCHANGED <<op, connectn, newConn, err, resp, endReqs, cb, fault, closedAtEntry>>
    /\ UNCHANGED <<cfgVars, kvVars, poolVars, sock, wireVars, rel, cls>>

\* Lines 104-109, 163-168, 201-207 with sendRequest (220-226): the request
\* goes out, or the send fails, healthy = false and the call returns err.
sendRequest(c) ==
    /\ pc[c] = "cl_send"
    /\ \/ /\ stream' = [stream EXCEPT ![connectn[c]] = "open"]
          /\ pc' = [pc EXCEPT ![c] = IF op[c] = "Statistics" THEN "st_recv1"
                                     ELSE "sc_recv"]
          /\ UNCHANGED <<healthy, err, fault, closedAtEntry>>
       \/ /\ healthy' = [healthy EXCEPT ![c] = FALSE]
          /\ err' = [err EXCEPT ![c] = "TransportError"]
          /\ fault' = [fault EXCEPT ![c] = "send"]
          /\ pc' = [pc EXCEPT ![c] = Deferred(c)]
          /\ UNCHANGED stream
    /\ UNCHANGED <<cfgVars, kvVars, poolVars, sock, op, connectn, newConn, rhealthy, path,
                   resp, endReqs, cb, rel, cls>>
    /\ UNCHANGED closedAtEntry

\* Lines 114-120: Statistics receives the response frame; on an error
\* healthy = false and the call returns err.
StatisticsRecv(c) ==
    /\ pc[c] = "st_recv1"
    /\ \/ \E f \in Frames :
            /\ resp' = [resp EXCEPT ![c] = f]
            /\ stream' = [stream EXCEPT ![connectn[c]] =
                            IF f = "StreamEndResponse" THEN "idle" ELSE @]
            /\ pc' = [pc EXCEPT ![c] = "st_recv2"]
            /\ UNCHANGED <<healthy, err, fault, closedAtEntry>>
       \/ \E e \in RecvErrs :
            /\ healthy' = [healthy EXCEPT ![c] = FALSE]
            /\ err' = [err EXCEPT ![c] = e]
            /\ fault' = [fault EXCEPT ![c] = "recv"]
            /\ pc' = [pc EXCEPT ![c] = Deferred(c)]
            /\ UNCHANGED <<resp, stream>>
    /\ UNCHANGED <<cfgVars, kvVars, poolVars, sock, op, connectn, newConn, rhealthy, path,
                   endReqs, cb, rel, cls>>
    /\ UNCHANGED closedAtEntry

\* Lines 122-135: Statistics receives the end of the stream. Anything else,
\* an error of Receive included, returns ErrorProtocol and leaves healthy as
\* it is. After the end marker the type assertion of line 129 panics when the
\* first frame was no StatisticsResponse; the deferred Return still runs.
StatisticsEnd(c) ==
    /\ pc[c] = "st_recv2"
    /\ \/ /\ stream' = [stream EXCEPT ![connectn[c]] = "idle"]
          /\ IF resp[c] \notin {"StatisticsResponse", "StatisticsResponseErr"}
             THEN /\ err' = [err EXCEPT ![c] = "panic"]
                  /\ fault' = [fault EXCEPT ![c] = "protocol"]
             ELSE /\ err' = [err EXCEPT ![c] =
                               IF resp[c] = "StatisticsResponseErr"
                               THEN "ResponseError" ELSE "nil"]
                  /\ UNCHANGED fault
       \/ \E f \in Frames \ {"StreamEndResponse"} :
            /\ err' = [err EXCEPT ![c] = "ErrorProtocol"]
            /\ fault' = [fault EXCEPT ![c] = "protocol"]
            /\ UNCHANGED stream
       \/ \E e \in RecvErrs :
            /\ err' = [err EXCEPT ![c] = "ErrorProtocol"]
            /\ fault' = [fault EXCEPT ![c] = "end_recv"]
            /\ UNCHANGED stream
    /\ pc' = [pc EXCEPT ![c] = Deferred(c)]
    /\ UNCHANGED <<cfgVars, kvVars, poolVars, sock, op, connectn, newConn, healthy, rhealthy,
                   path, resp, endReqs, cb, rel, cls>>
    /\ UNCHANGED closedAtEntry

\* What the ResponseHandler of caller c answers to a frame: it refuses its
\* MaxFrames-th frame at the latest.
Continues(c) == IF cb[c].n + 1 < MaxFrames THEN BOOLEAN ELSE {FALSE}

\* callb(arg): the ResponseHandler is invoked.
Invoked(c, arg) ==
    [last |-> arg, errs |-> cb[c].errs + (IF arg = "err" THEN 1 ELSE 0),
     n |-> cb[c].n + 1]

\* streamResponse of a client that does not tell the end marker from the
\* other frames: the marker goes to the callback, whose result is cont, and
\* closeStream follows when that is false.
streamResponseNoFinish(c) ==
    /\ pc[c] = "sc_recv"
    /\ \/ \E e \in RecvErrs :
            /\ cb' = [cb EXCEPT ![c] = Invoked(c, "err")]
            /\ healthy' = [healthy EXCEPT ![c] = FALSE]
            /\ err' = [err EXCEPT ![c] = e]
            /\ fault' = [fault EXCEPT ![c] = "recv"]
            /\ pc' = [pc EXCEPT ![c] = Deferred(c)]
            /\ UNCHANGED stream
       \/ \E cont \in BOOLEAN :
            /\ cb' = [cb EXCEPT ![c] = Invoked(c, "StreamEndResponse")]
            /\ healthy' = [healthy EXCEPT ![c] = TRUE]
            /\ err' = [err EXCEPT ![c] = "nil"]
            /\ stream' = [stream EXCEPT ![connectn[c]] = "idle"]
            /\ pc' = [pc EXCEPT ![c] = IF cont THEN "sc_recv" ELSE "cs_send"]
            /\ UNCHANGED fault
       \/ \E f \in Frames \ {"StreamEndResponse"}, cont \in Continues(c) :
            /\ cb' = [cb EXCEPT ![c] = Invoked(c, "ResponseStream")]
            /\ healthy' = [healthy EXCEPT ![c] = TRUE]
            /\ err' = [err EXCEPT ![c] = "nil"]
            /\ pc' = [pc EXCEPT ![c] = IF cont THEN "sc_recv" ELSE "cs_send"]
            /\ UNCHANGED <<stream, fault, closedAtEntry>>
    /\ UNCHANGED <<cfgVars, kvVars, poolVars, sock, op, connectn, newConn, rhealthy, path,
                   resp, endReqs, rel, cls>>
    /\ UNCHANGED closedAtEntry

\* Lines 170-179, 209-217 with streamResponse (228-263): one round of the
\* loop `for cont`. A receive error goes to the callback, cont and healthy
\* are false; the end marker goes to the callback, cont is false; any other
\* frame goes to the callback, whose result is cont, and when that is false
\* closeStream follows.
streamResponse(c) ==
    /\ pc[c] = "sc_recv"
    /\ \/ \E e \in RecvErrs :
            /\ cb' = [cb EXCEPT ![c] = Invoked(c, "err")]
            /\ healthy' = [healthy EXCEPT ![c] = FALSE]
            /\ err' = [err EXCEPT ![c] = e]
            /\ fault' = [fault EXCEPT ![c] = "recv"]
            /\ pc' = [pc EXCEPT ![c] = Deferred(c)]
            /\ UNCHANGED stream
       \/ /\ cb' = [cb EXCEPT ![c] = Invoked(c, "StreamEndResponse")]
          /\ healthy' = [healthy EXCEPT ![c] = TRUE]
          /\ err' = [err EXCEPT ![c] = "nil"]
          /\ stream' = [stream EXCEPT ![connectn[c]] = "idle"]
          /\ pc' = [pc EXCEPT ![c] = Deferred(c)]
          /\ UNCHANGED fault
       \/ \E f \in Frames \ {"StreamEndResponse"}, cont \in Continues(c) :
            /\ cb' = [cb EXCEPT ![c] = Invoked(c, "ResponseStream")]
            /\ healthy' = [healthy EXCEPT ![c] = TRUE]
            /\ err' = [err EXCEPT ![c] = "nil"]
            /\ pc' = [pc EXCEPT ![c] = IF cont THEN "sc_recv" ELSE "cs_send"]
            /\ UNCHANGED <<stream, fault, closedAtEntry>>
    /\ UNCHANGED <<cfgVars, kvVars, poolVars, sock, op, connectn, newConn, rhealthy, path,
                   resp, endReqs, rel, cls>>
    /\ UNCHANGED closedAtEntry

\* closeStreamSend of a closeStream that sends its EndStreamRequest twice.
closeStreamSendTwice(c) ==
    /\ pc[c] = "cs_send"
    /\ \/ /\ endReqs' = [endReqs EXCEPT ![c] = @ + 2]
          /\ pc' = [pc EXCEPT ![c] = "cs_drain"]
          /\ UNCHANGED <<err, fault, closedAtEntry>>
       \/ /\ err' = [err EXCEPT ![c] = "TransportError"]
          /\ fault' = [fault EXCEPT ![c] = "close_send"]
          /\ pc' = [pc EXCEPT ![c] = Deferred(c)]
          /\ UNCHANGED endReqs
    /\ UNCHANGED <<cfgVars, kvVars, poolVars, sock, stream, op, connectn, newConn, healthy,
                   rhealthy, path, resp, cb, rel, cls>>
    /\ UNCHANGED closedAtEntry

\* Lines 271-276: closeStream sends the EndStreamRequest; when the send fails
\* it returns the error, and streamResponse returns cont = false with
\* healthy = true.
closeStreamSend(c) ==
    /\ pc[c] = "cs_send"
    /\ \/ /\ endReqs' = [endReqs EXCEPT ![c] = @ + 1]
          /\ pc' = [pc EXCEPT ![c] = "cs_drain"]
          /\ UNCHANGED <<err, fault, closedAtEntry>>
       \/ /\ err' = [err EXCEPT ![c] = "TransportError"]
          /\ fault' = [fault EXCEPT ![c] = "close_send"]
          /\ pc' = [pc EXCEPT ![c] = Deferred(c)]
          /\ UNCHANGED endReqs
    /\ UNCHANGED <<cfgVars, kvVars, poolVars, sock, stream, op, connectn, newConn, healthy,
                   rhealthy, path, resp, cb, rel, cls>>
    /\ UNCHANGED closedAtEntry

\* closeStreamFlush of a closeStream that hands the frames it reads to the
\* callback instead of dropping them.
closeStreamFlushDelivers(c) ==
    /\ pc[c] = "cs_drain"
    /\ \/ \E f \in Frames \ {"StreamEndResponse"} :
            /\ cb' = [cb EXCEPT ![c] = Invoked(c, "ResponseStream")]
            /\ UNCHANGED <<pc, err, stream, fault, closedAtEntry>>
       \/ /\ stream' = [stream EXCEPT ![connectn[c]] = "idle"]
          /\ err' = [err EXCEPT ![c] = "nil"]
          /\ pc' = [pc EXCEPT ![c] = Deferred(c)]
          /\ UNCHANGED <<fault, closedAtEntry, cb>>
       \/ \E e \in RecvErrs :
            /\ err' = [err EXCEPT ![c] = e]
            /\ fault' = [fault EXCEPT ![c] = "close_recv"]
            /\ pc' = [pc EXCEPT ![c] = Deferred(c)]
            /\ UNCHANGED <<stream, cb>>
    /\ UNCHANGED <<cfgVars, kvVars, poolVars, sock, op, connectn, newConn, healthy, rhealthy,
                   path, resp, endReqs, rel, cls>>
    /\ UNCHANGED closedAtEntry

\* Lines 282-297: closeStream reads frames and drops them until the end
\* marker, io.EOF or another error; streamResponse then returns cont = false
\* with healthy = true.
closeStreamFlush(c) ==
    /\ pc[c] = "cs_drain"
    /\ \/ \E f \in Frames \ {"StreamEndResponse"} :
            UNCHANGED <<pc, err, stream, fault, closedAtEntry>>
       \/ /\ stream' = [stream EXCEPT ![connectn[c]] = "idle"]
          /\ err' = [err EXCEPT ![c] = "nil"]
          /\ pc' = [pc EXCEPT ![c] = Deferred(c)]
          /\ UNCHANGED fault
       \/ \E e \in RecvErrs :
            /\ err' = [err EXCEPT ![c] = e]
            /\ fault' = [fault EXCEPT ![c] = "close_recv"]
            /\ pc' = [pc EXCEPT ![c] = Deferred(c)]
            /\ UNCHANGED stream
    /\ UNCHANGED <<cfgVars, kvVars, poolVars, sock, op, connectn, newConn, healthy, rhealthy,
                   path, resp, endReqs, cb, rel, cls>>
    /\ UNCHANGED closedAtEntry

\* ------------------------------------------------------- the pool's users
GetWithTimeout(c) ==
    \/ GetShortCircuit(c)
    \/ GetAvail1(c)
    \/ GetAvail2(c)
    \/ GetMkConn(c)
    \/ GetReleaseSem(c)
    \/ GetDecFree(c)
    \/ GetIncAct(c)

Return(c) ==
    \/ ReturnSelect(c)
    \/ ReturnIncFree(c)
    \/ ReturnReleaseSem(c)
    \/ ReturnClose(c)
    \/ ReturnDefer(c)
    \/ ReturnReturned(c)

Renew(c) ==
    \/ RenewMkConn(c)
    \/ RenewClose(c)

releaseConnsRoutine ==
    \/ RoutineTick
    \/ RetainLoadAct
    \/ RetainDecide
    \/ ReleaseLoadFc
    \/ ReleaseLoadAct
    \/ ReleaseRecv
    \/ ReleaseDecFree
    \/ ReleaseClose

Close ==
    \/ CloseCall
    \/ CloseStop
    \/ CloseChan
    \/ CloseDrain

\* Goroutines that use the pool directly: Get and Return.
PoolUser(c) ==
    \/ GetEnter(c, "pool")
    \/ GetWithTimeout(c)
    \/ GetReturned(c)
    \/ \E h \in BOOLEAN : ReturnCall(c, h)
    \/ Return(c)

\* The pool and its users.
NextUsers == \E c \in Callers : PoolUser(c)

SpecUsers == Init /\ [][NextUsers]_vars

\* The pool with its users and its routine.
Next ==
    \/ \E c \in Callers : PoolUser(c)
    \/ releaseConnsRoutine

Spec == Init /\ [][Next]_vars

\* The pool with its users, its routine and Close.
NextClose ==
    \/ \E c \in Callers : PoolUser(c)
    \/ releaseConnsRoutine
    \/ Close

SpecClose == Init /\ [][NextClose]_vars

\* The pool with users that also call Renew, and its routine.
NextRenew ==
    \/ \E c \in Callers : PoolUser(c) \/ RenewCall(c) \/ Renew(c)
    \/ releaseConnsRoutine

SpecRenew == Init /\ [][NextRenew]_vars

\* Goroutines that use the pool through the client.
Statistics(c) ==
    \/ StatisticsRecv(c)
    \/ StatisticsEnd(c)

closeStream(c) ==
    \/ closeStreamSend(c)
    \/ closeStreamFlush(c)

ClientUser(c) ==
    \/ \E o \in ClientOps : GetEnter(c, o)
    \/ GetWithTimeout(c)
    \/ ClientGot(c)
    \/ sendRequest(c)
    \/ Statistics(c)
    \/ streamResponse(c)
    \/ closeStream(c)
    \/ Return(c)

\* The pool and the client's calls.
NextClient == \E c \in Callers : ClientUser(c)

SpecClient == Init /\ [][NextClient]_vars

\* The routine alone on a preloaded pool with no caller active.
NextRetain == releaseConnsRoutine

SpecRetain == InitRetain /\ [][NextRetain]_vars

\* The pool with users that also call Return with no connection, and Close.
NextReturn ==
    \/ \E c \in Callers : PoolUser(c) \/ \E h \in BOOLEAN : ReturnNil(c, h)
    \/ Close

SpecReturn == Init /\ [][NextReturn]_vars

\* The pool with a lower water mark, its users and its routine.
SpecWM == InitWM /\ [][Next]_vars

\* The routine and Close on a preloaded pool with no caller active. Both are
\* goroutines the Go scheduler keeps running: a step the routine can take,
\* and a step a Close that was called can take, is taken eventually.
NextStop ==
    \/ releaseConnsRoutine
    \/ Close

SpecStop ==
    /\ InitRetain
    /\ [][NextStop]_vars
    /\ WF_vars(releaseConnsRoutine)
    /\ WF_vars(CloseStop \/ CloseChan \/ CloseDrain)

\* The routine and up to MaxStopCalls invocations of Close, one after the
\* other, on a preloaded pool with no caller active.
NextCloses ==
    \/ releaseConnsRoutine
    \/ CloseCallUpTo(MaxStopCalls)
    \/ CloseStop
    \/ CloseChan
    \/ CloseDrain

SpecCloses == InitRetain /\ [][NextCloses]_vars

\* ------------------------------------------------- MetakvBigValueSet/Get
\* What the pool and its callers are left as while kvutility works.
poolUntouched == UNCHANGED <<cfgVars, poolVars, sock, wireVars, callerVars, rel, cls>>

\* Lines 362-375: the path is fixed, json.Marshal(v) gives buf, count = 0.
MetakvBigValueSetCall(v) ==
    /\ bigset.pc = "idle"
    /\ bigset' = [pc |-> "loop", buf |-> Marshal(v), count |-> 0, v |-> v, err |-> "nil"]
    /\ UNCHANGED <<metakv, lastSet, bigget>>
    /\ poolUntouched

\* min(len, METAKV_SIZE_LIMIT), lines 381-384.
ChunkSize(buf) ==
    IF Len(buf) > METAKV_SIZE_LIMIT THEN METAKV_SIZE_LIMIT ELSE Len(buf)

\* metakv.Set(path2, value): the child path/count gets the value, the other
\* children stay.
Stored(count, value) ==
    [i \in DOMAIN metakv \cup {count} |-> IF i = count THEN value ELSE metakv[i]]

\* Lines 378-396, one pass of the loop whose metakv.Set succeeds: chunk count
\* is written; after the last chunk MetakvBigValueSet returns nil.
MetakvBigValueSetChunk ==
    /\ bigset.pc = "loop"
    /\ LET size == ChunkSize(bigset.buf)
           rest == SubSeq(bigset.buf, size + 1, Len(bigset.buf))
       IN  /\ metakv' = Stored(bigset.count, SubSeq(bigset.buf, 1, size))
           /\ IF Len(rest) > 0
              THEN /\ bigset' = [bigset EXCEPT !.buf = rest, !.count = bigset.count + 1]
                   /\ UNCHANGED lastSet
              ELSE /\ bigset' = NoSet
                   /\ lastSet' = bigset.v
    /\ bigget' = NoGet
    /\ poolUntouched

\* Lines 386-389: metakv.Set fails; MetakvBigValueDel removes every child of
\* the path and MetakvBigValueSet returns the error.
MetakvBigValueSetFail ==
    /\ bigset.pc = "loop"
    /\ metakv' = NoChildren
    /\ bigset' = [NoSet EXCEPT !.err = "metakv.Set"]
    /\ lastSet' = NoValue
    /\ bigget' = NoGet
    /\ poolUntouched

\* raws in the order of the chunk indexes 0..n-1, appended (lines 454-462).
RECURSIVE Appended(_)
Appended(n) == IF n = 0 THEN <<>> ELSE Appended(n - 1) \o metakv[n - 1]

\* Lines 424-466 once ListAllChildren has returned the children.
BigValueOf(children) ==
    LET n == Cardinality(children)
    IN  IF n = 0
        THEN [ok |-> FALSE, err |-> "nil", value |-> NoValue]
        ELSE IF \E i \in children : i >= n
        THEN [ok |-> FALSE, err |-> "nil", value |-> NoValue]
        ELSE Unmarshal(Appended(n))

\* MetakvBigValueGet: ListAllChildren fails, or gives the children.
MetakvBigValueGet ==
    /\ \/ bigget' = [ok |-> FALSE, err |-> "ListAllChildren", value |-> NoValue]
       \/ bigget' = BigValueOf(DOMAIN metakv)
    /\ bigget' # bigget
    /\ UNCHANGED <<metakv, bigset, lastSet>>
    /\ poolUntouched

MetakvBigValueSet ==
    \/ \E v \in Values : MetakvBigValueSetCall(v)
    \/ MetakvBigValueSetChunk
    \/ MetakvBigValueSetFail

\* One goroutine that sets values at a path and one that gets the value.
NextMetakv ==
    \/ MetakvBigValueSet
    \/ MetakvBigValueGet

SpecMetakv == Init /\ [][NextMetakv]_vars

\* ------------------------------------------------------------ vocabulary
\* The connections caller c holds: from the receive or the dial that gave it
\* the connection until it has deposited or closed it in Return.
Owned(c) ==
    IF pc[c] \in {"get_free", "get_act", "get_ret", "held", "renew_mk",
                  "ret_select", "ret_sem", "ret_close"} \cup InCall
    THEN {connectn[c]} \ {NoConn}
    ELSE IF pc[c] = "renew_close" THEN {connectn[c], newConn[c]}
    ELSE {}

Idle == IdleRefs(connections)

\* The open connections in the idle buffer or held by a caller.
PoolConns == {k \in Idle \cup UNION {Owned(c) : c \in Callers} : IsOpen(k)}

\* Caller c is in no call of the pool: before a call, or after its return.
AtRest(c) == pc[c] \in {"idle", "get_ret", "held", "ret_done"} \cup InCall
CallersAtRest == \A c \in Callers : AtRest(c)
\* The routine is outside releaseConns.
ShrinkAtRest == rel.pc \in {"sleep", "stopped", "retain_act", "retain_fc"}

\* Caller c has returned from Return(connectn, false) with a connection.
UnhealthyDone(c) == pc[c] = "ret_done" /\ ~rhealthy[c] /\ connectn[c] # NoConn

\* cur_active counts caller c: between the increment in GetWithTimeout and
\* the deferred decrement in Return.
CountedActive(c) ==
    \/ pc[c] \in {"held", "ret_select", "ret_free", "ret_sem", "ret_close", "ret_defer"}
    \/ pc[c] \in InCall
    \/ pc[c] = "get_ret" /\ connectn[c] # NoConn

\* ---------------------------------------------------------------- claims
\* C1: in every state in which no acquire, Return or shrink is part-way
\* through, the number of create permits held equals free_count + cur_active
\* (one permit per existing connection), also after a shrink.
C1_PermitPerConnection ==
    (CallersAtRest /\ ShrinkAtRest) => createsem = freeConns + curActConns

\* C2 (as stated): the open connections in the idle buffer or held by callers,
\* the replacement dialled by a Renew included, never number more than
\* poolSize + poolOverflow.
C2_OpenConnsBounded == Cardinality(PoolConns) <= poolSize + poolOverflow

\* The connections that hold a create permit: idle or held, but neither the old
\* connection of a Renew that has dialled its replacement nor a connection
\* whose permit Return has released and that it is about to close.
PermitConns ==
    PoolConns \ {connectn[c] : c \in {d \in Callers : pc[d] \in {"renew_close", "ret_close"}}}

\* C2 (amended): the open connections in the idle buffer or held by callers,
\* not counting the old connection of a Renew whose replacement is dialled nor
\* a connection Return is about to close after releasing its permit, never
\* number more than poolSize + poolOverflow.
C2_PermitConnsBounded == Cardinality(PermitConns) <= poolSize + poolOverflow

\* A Renew has dialled its replacement while every permit is taken: one more
\* connection is open than the pool permits.
C2_Witness ==
    /\ \E c \in Callers : pc[c] = "renew_close"
    /\ Cardinality(PermitConns) = poolSize + poolOverflow
    /\ Cardinality(PoolConns) = poolSize + poolOverflow + 1

\* C3: a connection has one owner: no two callers hold the same connection, a
\* held connection is not in the idle buffer nor in the hands of the shrink,
\* the idle buffer holds no connection twice, and every held or idle
\* connection is open (shrink, overflow discard, unhealthy return and Close
\* have closed none of them).
C3_ExclusiveOwnership ==
    /\ \A c, d \in Callers : c # d => Owned(c) \cap Owned(d) = {}
    /\ \A c \in Callers : \A k \in Owned(c) :
          /\ ~InIdle(k)
          /\ k # rel.conn
          /\ IsOpen(k)
    /\ Cardinality(Idle) = Len(connections)
    /\ \A k \in Idle : IsOpen(k) /\ k # rel.conn

\* An acquire has taken from the idle buffer a connection another caller had
\* deposited, while that caller holds another one and Close has run.
C3_Witness ==
    \E c, d \in Callers :
        /\ c # d
        /\ pc[c] = "get_ret" /\ connectn[c] # NoConn /\ path[c] # "create"
        /\ pc[d] = "held"
        /\ closed

\* C4 (as stated): free_count + cur_active <= poolSize + poolOverflow in every
\* state, the states between the steps of acquire and Return included.
C4_SumBoundedAlways == freeConns + curActConns <= poolSize + poolOverflow

\* C4 (amended): free_count + cur_active <= poolSize + poolOverflow whenever
\* no acquire and no Return is part-way through.
C4_SumBoundedAtRest ==
    CallersAtRest => freeConns + curActConns <= poolSize + poolOverflow

\* Both callers hold a connection and the counters are at the bound.
C4_Witness ==
    /\ \A c \in Callers : pc[c] = "held"
    /\ freeConns + curActConns = poolSize + poolOverflow

\* C5 (as stated): free_count <= poolSize in every state, the states between
\* a take from the idle buffer and the decrement of free_count included.
C5_FreeBoundedAlways == freeConns <= poolSize

\* C5 (amended): free_count <= poolSize whenever no acquire, no Return and no
\* shrink is part-way through.
C5_FreeBoundedAtRest ==
    (CallersAtRest /\ ShrinkAtRest) => freeConns <= poolSize

\* A Return has deposited a connection and free_count is at poolSize.
C5_Witness ==
    /\ \E c \in Callers : pc[c] = "ret_done" /\ rhealthy[c]
    /\ CallersAtRest /\ ShrinkAtRest
    /\ poolSize > 0
    /\ freeConns = poolSize

\* What one permit per existing connection means while calls are part-way
\* through: a permit is held for every idle or held connection (PermitConns)
\* and for every acquire between taking its permit and the end of its dial.
PermitsDue ==
    Cardinality(PermitConns)
        + Cardinality({c \in Callers : pc[c] \in {"get_mk", "get_unsem"}})

C6_State ==
    /\ \A c \in Callers : UnhealthyDone(c) =>
          /\ sock[connectn[c]] = "unhealthy"
          /\ ~InIdle(connectn[c])
          /\ \A d \in Callers \ {c} : connectn[c] \notin Owned(d)
    /\ createsem = PermitsDue
    /\ curActConns = Cardinality({c \in Callers : CountedActive(c)})
    /\ \A c \in Callers :
          (/\ UnhealthyDone(c)
           /\ connections = <<>>
           /\ \A d \in Callers \ {c} : pc[d] = "idle")
          => createsem = 0 /\ curActConns = 0 /\ freeConns = 0

C6_Step ==
    \A d \in Callers :
        (pc[d] # "get_free" /\ pc'[d] = "get_free")
        => \/ Len(connections) > 0
           \/ \E c \in Callers : pc[c] = "ret_select" /\ rhealthy[c]

\* C6: Return(connection, false) of a held connection closes it, deposits it
\* nowhere and hands it to nobody, lowers the permits held by exactly one
\* (permits stay one per existing connection) and cur_active by one; from one
\* held connection and nothing else the result is cur_active = 0,
\* free_count = 0, permits = 0; and an acquire gets a pooled connection only
\* from the idle buffer or from a healthy Return, so the next one dials.
C6_UnhealthyReturn == []C6_State /\ [][C6_Step]_vars

\* An unhealthy Return of the only connection has finished.
C6_Witness ==
    \E c \in Callers :
        /\ UnhealthyDone(c)
        /\ connections = <<>>
        /\ \A d \in Callers \ {c} : pc[d] = "idle"
        /\ createsem = 0

\* A connection of the pool that a later acquire can still receive: it is in
\* the idle buffer, or a later acquire already took it from there.
Reusable(c) ==
    \/ InIdle(connectn[c])
    \/ \E d \in Callers \ {c} : connectn[c] \in Owned(d)

\* Caller c has returned from a client call whose deferred Return ran.
ClientDone(c) == pc[c] = "ret_done" /\ op[c] \in ClientOps

\* C7: when the send of the request or the receive of the response fails at
\* the transport level during Statistics, the connection is returned
\* unhealthy: Return runs with healthy = false, the connection is closed and
\* no later acquire can receive it.
C7_StatisticsTransportFailure ==
    \A c \in Callers :
        (/\ ClientDone(c)
         /\ op[c] = "Statistics"
         /\ fault[c] \in {"send", "recv"})
        => /\ ~rhealthy[c]
           /\ IsClosed(connectn[c])
           /\ ~Reusable(c)

\* C8: when the receive of a response frame fails during Scan or ScanAll, the
\* callback is invoked once with the error, the loop stops, and the
\* connection is returned unhealthy (closed, out of reach of later acquires).
C8_ScanReceiveFailure ==
    \A c \in Callers :
        (/\ ClientDone(c)
         /\ op[c] \in Scans
         /\ cb[c].last = "err")
        => /\ cb[c].errs = 1
           /\ ~rhealthy[c]
           /\ IsClosed(connectn[c])
           /\ ~Reusable(c)

\* C9: when the frame after the Statistics response is not the end-of-stream
\* marker, or the response frame has the wrong type, Statistics returns
\* ErrorProtocol, the connection is returned unhealthy and closed, and a later
\* acquire gets a different connection.
C9_StatisticsProtocolViolation ==
    \A c \in Callers :
        (/\ ClientDone(c)
         /\ op[c] = "Statistics"
         /\ fault[c] = "protocol")
        => /\ err[c] = "ErrorProtocol"
           /\ ~rhealthy[c]
           /\ IsClosed(connectn[c])
           /\ ~Reusable(c)

\* Caller c is in a Scan or ScanAll whose callback asked to stop on a data
\* frame, and closeStream has sent its request.
Cancelled(c) == op[c] \in Scans /\ cb[c].last = "ResponseStream" /\ endReqs[c] > 0
\* ... and closeStream has read the stream to its end marker.
Drained(c) ==
    /\ Cancelled(c)
    /\ pc[c] \in {"ret_select", "ret_free", "ret_sem", "ret_close", "ret_defer",
                  "ret_done"}
    /\ err[c] = "nil"

\* C10, in every state: a cancelled scan has sent exactly one EndStreamRequest
\* and its callback has seen nothing after the frame it refused; once the
\* stream is read to its end marker the connection goes to Return as healthy,
\* open and with no stream open on it.
C10_State ==
    \A c \in Callers :
        /\ (pc[c] = "cs_drain") => (endReqs[c] = 1 /\ cb[c].last = "ResponseStream")
        /\ Drained(c) =>
              /\ endReqs[c] = 1
              /\ cb[c].errs = 0
              /\ rhealthy[c]
              /\ pc[c] = "ret_select" =>
                    (stream[connectn[c]] = "idle" /\ IsOpen(connectn[c]))

\* C10, in every step: while closeStream reads the stream the callback is not
\* invoked; Return deposits the connection of a drained scan in the idle
\* buffer when the buffer has room; and an acquire that finds the buffer
\* non-empty takes its head.
C10_Step ==
    /\ \A c \in Callers :
          /\ pc[c] = "cs_drain" => (cb'[c] = cb[c] /\ endReqs'[c] = endReqs[c])
          /\ (Drained(c) /\ pc[c] = "ret_select" /\ pc'[c] # "ret_select"
                /\ ~closed /\ Len(connections) < poolSize)
             => connections' = Append(connections, connectn[c])
    /\ \A d \in Callers :
          (pc[d] # "get_free" /\ pc'[d] = "get_free" /\ Len(connections) > 0)
          => (connectn'[d] = Head(connections) /\ connections' = Tail(connections))

\* C10: a scan whose callback returns false sends exactly one end-stream
\* request, reads and drops frames up to the end-of-stream marker without
\* invoking the callback, then returns the connection healthy, so that it is
\* deposited in the idle buffer and handed to the next acquire.
C10_CancelDrainsAndReuses == []C10_State /\ [][C10_Step]_vars

\* A cancelled and drained scan has deposited its connection and another
\* caller's acquire has received that very connection.
C10_Witness ==
    \E c \in Callers, d \in Callers :
        /\ c # d
        /\ Drained(c)
        /\ pc[c] = "ret_done"
        /\ pc[d] = "get_ret"
        /\ connectn[d] = connectn[c]
        /\ path[d] = "short-circuit"

\* C11: a Scan or ScanAll whose request was sent gives its connection to
\* Return as healthy only with the stream on it ended: the end marker was
\* received, or closeStream sent its request and read up to the end marker;
\* no connection with a half-open stream goes to the idle buffer.
C11_NoHalfOpenStreamReturned ==
    \A c \in Callers :
        (/\ op[c] \in Scans
         /\ fault[c] # "send"
         /\ pc[c] = "ret_select")
        => stream[connectn[c]] = "idle"

\* Positions of a caller inside Return: where ReturnBranch starts it, and all
\* of them.
RetStart == {"ret_select", "ret_sem", "ret_defer"}
RetPcs == RetStart \cup {"ret_free", "ret_close", "ret_done"}

\* C12, in every step of a client call: every exit from the part between
\* pool.Get and the end of the function enters Return; Return is entered only
\* from there, with the connection the call acquired; Return runs to its end
\* and the call is over after it (no second Return); a call whose acquire
\* failed is over without entering Return.
C12_Step ==
    \A c \in Callers :
        op[c] \in ClientOps =>
            /\ (pc[c] \in InCall /\ pc'[c] \notin InCall) => pc'[c] \in RetStart
            /\ (pc[c] \notin RetPcs /\ pc'[c] \in RetPcs) =>
                  (pc[c] \in InCall /\ connectn[c] # NoConn
                     /\ connectn'[c] = connectn[c])
            /\ (pc[c] \in RetPcs /\ pc'[c] \notin RetPcs) =>
                  (pc[c] = "ret_done" /\ pc'[c] = "idle")
            /\ (pc[c] = "get_ret" /\ err[c] # "nil" /\ pc'[c] # pc[c]) =>
                  pc'[c] = "idle"

\* C12, in every state: cur_active counts exactly the callers between the
\* increment of their acquire and the decrement of their Return, so with no
\* call in progress it is back at 0, its value before them.
C12_State ==
    /\ curActConns = Cardinality({c \in Callers : CountedActive(c)})
    /\ (\A c \in Callers : pc[c] = "idle") => curActConns = 0

\* C12: Statistics, Scan and ScanAll call Return exactly once for a connection
\* they acquired, on every exit path, and never after a failed acquire; after
\* completed calls cur_active is back at its value before them.
C12_ReturnExactlyOnce == []C12_State /\ [][C12_Step]_vars

\* A Statistics that met a protocol violation has finished, its Return has
\* run, and cur_active is back at 0.
C12_Witness ==
    \E c \in Callers :
        /\ ClientDone(c)
        /\ fault[c] = "protocol"
        /\ \A d \in Callers \ {c} : pc[d] = "idle"
        /\ curActConns = 0

\* An invocation of Close has returned.
CloseHasReturned == cls.n >= 2 \/ (cls.n = 1 /\ cls.pc = "idle")

\* Caller c has received its connection from the buffer of cp.connections
\* (poolSize > 0: the channel has slots) and is still in that acquire.
TookFromIdle(c) ==
    /\ poolSize > 0
    /\ pc[c] \in {"get_free", "get_act", "get_ret"}
    /\ connectn[c] # NoConn
    /\ path[c] # "create"

\* C13 (as stated): after Close has returned no connection that was in the
\* idle buffer is open: none in the buffer, and none that an acquire received
\* from the buffer.
C13_NoIdleConnOpenAfterClose ==
    CloseHasReturned =>
        /\ \A k \in Idle : ~IsOpen(k)
        /\ \A c \in Callers : TookFromIdle(c) => ~IsOpen(connectn[c])

\* C13 (amended): after Close has returned the idle buffer is closed and
\* empty, and every connection that is still open is in the hands of a caller
\* (whose Return closes it, the buffer being closed) or of the shrink (which
\* closes it); Close has closed what it found in the buffer, connections
\* deposited by a racing Return included.
C13_ClosedPoolHoldsNothing ==
    CloseHasReturned =>
        /\ closed
        /\ connections = <<>>
        /\ \A k \in ConnIds :
              IsOpen(k) => (k = rel.conn \/ \E c \in Callers : k \in Owned(c))

\* Close has returned after it drained and closed the connection that a
\* Return racing with it had deposited.
C13_Witness ==
    /\ CloseHasReturned
    /\ \E c \in Callers :
          /\ pc[c] \in {"ret_free", "ret_defer", "ret_done"}
          /\ rhealthy[c]
          /\ sock[connectn[c]] = "Close"

\* C14, in every state: once Close has been invoked a second time the idle
\* buffer is closed and empty, and that invocation neither drains anything nor
\* ends in a panic.
C14_State ==
    cls.n >= 2 =>
        /\ closed
        /\ connections = <<>>
        /\ cls.pc \notin {"drain", "panic"}

\* C14, in every step: a step of the second invocation of Close leaves the
\* idle buffer, the permits, the counters and the connections as they are.
C14_Step ==
    (cls.n >= 2 /\ cls' # cls) =>
        UNCHANGED <<connections, closed, createsem, curActConns, freeConns, sock>>

\* C14: Close is idempotent: a second invocation on a closed pool raises
\* nothing (the panic of the second close(cp.connections) is recovered) and
\* leaves the buffer, the permits and the counters as the first one left them.
C14_CloseIdempotent == []C14_State /\ [][C14_Step]_vars

\* The second invocation of Close has returned, after the routine took the
\* first stop signal and stopped.
C14_Witness ==
    /\ cls.n = 2
    /\ cls.pc = "idle"
    /\ rel.pc = "stopped"
    /\ stopCh = 1

\* Close has sent its stop signal (line 133).
StopSent == cls.n >= 2 \/ (cls.n = 1 /\ cls.pc # "stop")

\* C15: once Close has sent the stop signal no acquire starts to make a
\* connection: none takes a create permit at the select of stage C, whether it
\* was waiting there when Close ran or came between the stop signal and the
\* closing of the idle buffer.
C15_NoCreateAfterStop ==
    [][StopSent => \A c \in Callers : ~(pc[c] = "get_avail2" /\ pc'[c] = "get_mk")]_vars

\* C16, in every state: once the idle buffer is closed no connection is open
\* outside the pool and its users: an open connection is held by a caller, or
\* still buffered for Close's drain, or in the hands of the shrink; and no
\* Return has ended in a panic.
C16_State ==
    /\ closed =>
          \A k \in ConnIds :
              IsOpen(k) => \/ InIdle(k)
                           \/ k = rel.conn
                           \/ \E c \in Callers : k \in Owned(c)
    /\ \A c \in Callers : pc[c] # "ret_panic"

\* C16, in every step: a healthy Return that finds the idle buffer closed
\* closes its connection itself and deposits nothing, and the deferred
\* decrement still lowers cur_active by one before Return ends.
C16_Step ==
    \A c \in Callers :
        /\ (pc[c] = "ret_select" /\ closed /\ pc'[c] # pc[c]) =>
              /\ sock'[connectn[c]] = "recover"
              /\ connections' = connections
              /\ pc'[c] = "ret_defer"
        /\ (pc[c] = "ret_defer" /\ pc'[c] # pc[c]) =>
              /\ curActConns' = curActConns - 1
              /\ pc'[c] = "ret_done"

\* C16: Return(connection, true) concurrent with or after Close raises
\* nothing to its caller and leaves no connection open outside the pool: when
\* the buffer is closed Return closes the connection itself, and cur_active is
\* decremented by one all the same.
C16_ReturnToleratesClose == []C16_State /\ [][C16_Step]_vars

\* A healthy Return on the closed pool has closed its connection and ended.
C16_Witness ==
    \E c \in Callers :
        /\ pc[c] = "ret_done"
        /\ rhealthy[c]
        /\ closed
        /\ sock[connectn[c]] = "recover"

\* ------------------------------------------------------------------- C17
\* Every caller is outside the pool's operations or at the first select of
\* an acquire.
Quiescent == \A c \in Callers : pc[c] \in {"idle", "get_short"}

\* The select of Return, healthy, on an open pool leaves the idle buffer
\* non-empty.
C17_ReturnStep ==
    \A c \in Callers :
        (pc[c] = "ret_select" /\ pc'[c] # "ret_select" /\ rhealthy[c] /\ ~closed)
            => connections' # <<>>

\* An acquire that finds the idle buffer non-empty at its first select takes
\* the head of the buffer there, with the stage label short-circuit, and
\* nothing is dialled and no create permit is taken.
C17_AcquireStep ==
    \A c \in Callers :
        (pc[c] = "get_short" /\ pc'[c] # "get_short" /\ connections # <<>>)
            => /\ pc'[c] = "get_free"
               /\ connectn'[c] = Head(connections)
               /\ path'[c] = "short-circuit"
               /\ sock' = sock
               /\ createsem' = createsem

\* With no call under way, as long as a connection of the pool lives.
C17_Live == Quiescent /\ createsem > 0

\* C17 as stated, for every pool size: acquire, Return(healthy = true) and
\* acquire again, with no shrink: the Return leaves a connection in the idle
\* buffer, it is still there when no call is under way, and the second
\* acquire takes it at the short-circuit select without make-connection.
C17_ReuseAnyPoolSize ==
    /\ [](C17_Live => connections # <<>>)
    /\ [][C17_ReturnStep /\ C17_AcquireStep]_vars

\* C17, amended: the same for poolSize >= 1. With poolSize = 0 the buffer
\* holds nothing, a healthy Return that meets no waiting acquire closes
\* its connection, and the next acquire dials.
C17_FastPathReuse ==
    /\ [](poolSize >= 1 /\ C17_Live
            => connections # <<>> /\ sock[Head(connections)] = "open")
    /\ [][(poolSize >= 1 => C17_ReturnStep) /\ C17_AcquireStep]_vars

\* The second acquire of a sole caller has taken, at the short-circuit
\* select, the connection a healthy Return had left.
C17_Witness ==
    \E c \in Callers :
        /\ poolSize >= 1
        /\ pc[c] = "get_ret"
        /\ err[c] = "nil"
        /\ path[c] = "short-circuit"
        /\ connectn[c] # NoConn
        /\ sock[connectn[c]] = "open"
        /\ Made = {connectn[c]}
        /\ \A d \in Callers \ {c} : pc[d] = "idle"

\* ------------------------------------------------------------------- C18
\* The callers that hold a borrowed connection.
Borrowers == {c \in Callers : pc[c] = "held"}
FullyBorrowed == Cardinality(Borrowers) = poolSize + poolOverflow

\* The three selects of an acquire.
Acquiring(c) == pc[c] \in {"get_short", "get_avail1", "get_avail2"}

\* With poolSize + poolOverflow connections borrowed every permit is taken
\* and nothing is idle; no other caller is dialling or has obtained a
\* connection, and an acquire that has come back came back with an error.
C18_State ==
    FullyBorrowed =>
        /\ createsem = poolSize + poolOverflow
        /\ connections = <<>>
        /\ \A c \in Callers :
              \/ pc[c] \in {"idle", "held", "ret_free", "ret_close", "ret_defer", "ret_done"}
              \/ Acquiring(c)
              \/ pc[c] = "get_ret" /\ err[c] # "nil" /\ connectn[c] = NoConn

\* With poolSize + poolOverflow connections borrowed a step of an acquire
\* goes on to the next select, or is the timer of stage C and ends the
\* acquire with ErrorPoolTimeout; nothing is dialled and no permit taken.
C18_Step ==
    FullyBorrowed =>
        \A c \in Callers :
            (Acquiring(c) /\ pc'[c] # pc[c]) =>
                /\ \/ pc[c] = "get_short" /\ pc'[c] = "get_avail1"
                   \/ pc[c] = "get_avail1" /\ pc'[c] = "get_avail2"
                   \/ /\ pc[c] = "get_avail2"
                      /\ pc'[c] = "get_ret"
                      /\ err'[c] = "ErrorPoolTimeout"
                /\ connectn'[c] = NoConn
                /\ sock' = sock
                /\ createsem' = createsem

\* C18: with poolSize + poolOverflow connections borrowed a further acquire
\* creates no connection and does not return until a Return releases a
\* connection or a permit, or the timer of stage C fires and it returns
\* ErrorPoolTimeout.
C18_ExhaustedPoolBlocks == []C18_State /\ [][C18_Step]_vars

\* Every permit is borrowed and a further acquire has timed out.
C18_Witness ==
    /\ FullyBorrowed
    /\ \E c \in Callers :
          /\ pc[c] = "get_ret"
          /\ err[c] = "ErrorPoolTimeout"
          /\ connectn[c] = NoConn

\* ------------------------------------------------------------------- C19
\* A successful acquire of caller c is about to give its connection out.
Acquired(c) ==
    /\ pc[c] \in {"get_free", "get_act", "get_ret"}
    /\ err[c] = "nil"
    /\ connectn[c] # NoConn

\* C19: with poolSize = 0 every successful acquire has invoked
\* make-connection (its stage label is create), and the select of every
\* Return(healthy = true) takes the default case, which closes the
\* connection: no connection passes from a returning caller to an acquiring
\* one.
C19_NoHandOffWithoutBuffer ==
    /\ [](poolSize = 0 => \A c \in Callers : Acquired(c) => path[c] = "create")
    /\ [][poolSize = 0 =>
            \A c \in Callers :
                (pc[c] = "ret_select" /\ pc'[c] # "ret_select" /\ rhealthy[c])
                    => pc'[c] = "ret_sem" /\ connectn' = connectn]_vars

\* ------------------------------------------------------------------- C20
\* The routine is inside releaseConns.
Releasing == rel.pc \in {"rel_fc", "rel_act", "rel_recv", "rel_dec", "rel_close"}

\* The decision of a retention evaluation with no connection active and a
\* rate of 0.
IdleEvaluation == rel.pc = "retain_fc" /\ rel.act = 0 /\ ~ewma.positive

\* C20: with cur_active = 0 sustained, one retention evaluation takes at most
\* relConnBatchSize connections from the idle ones, and every evaluation that
\* finds free_count > minPoolSizeWM releases connections, so that the
\* evaluations go on until free_count <= minPoolSizeWM.
C20_ShrinksToWaterMark ==
    /\ [](Releasing /\ rel.act = 0 => freeConns >= rel.numRetConns)
    /\ [][IdleEvaluation /\ freeConns > minPoolSizeWM => rel'.pc = "rel_fc"]_vars

\* ------------------------------------------------------------------- C21
\* The acquire of caller c has come back with the error of its dial.
DialFailed(c) == pc[c] = "get_ret" /\ err[c] = "DialError"

\* In every state: the permits taken are those of the pool's connections and
\* of the acquires between their permit and the end of their dial, so the
\* acquire whose dial failed holds none; it has no connection and the stage
\* label is create.
C21_State ==
    /\ createsem = PermitsDue
    /\ \A c \in Callers : DialFailed(c) =>
          /\ connectn[c] = NoConn
          /\ path[c] = "create"
          /\ ~CountedActive(c)

\* The failed dial changes nothing of the pool, and the step after it gives
\* back the one permit and leaves the idle buffer and both counters alone.
C21_Step ==
    \A c \in Callers :
        /\ (pc[c] = "get_mk" /\ pc'[c] = "get_unsem") =>
              /\ err'[c] = "DialError"
              /\ connectn'[c] = NoConn
              /\ UNCHANGED <<poolVars, sock>>
        /\ pc[c] = "get_unsem" =>
              \/ pc'[c] = "get_unsem"
              \/ /\ DialFailed(c)'
                 /\ createsem' = createsem - 1
                 /\ UNCHANGED <<connections, closed, curActConns, freeConns, sock>>

\* C21: an acquire that took a create permit in stage C and whose
\* make-connection failed gives the permit back, leaves cur_active and
\* free_count as they were, returns no connection and returns the dial error.
C21_DialFailureReleasesPermit == []C21_State /\ [][C21_Step]_vars

\* The only acquire there was has returned its dial error and the pool is
\* as newConnectionPool made it.
C21_Witness ==
    \E c \in Callers :
        /\ DialFailed(c)
        /\ \A d \in Callers \ {c} : pc[d] = "idle"
        /\ createsem = 0
        /\ curActConns = 0
        /\ freeConns = 0
        /\ connections = <<>>
        /\ Made = {}

\* ------------------------------------------------------------------- C22
\* The label of the select an acquire is at: line 158 is the fast path,
\* line 174 stage B, line 189 stage C.
StageLabel(p) ==
    IF p = "get_short" THEN "short-circuit"
    ELSE IF p = "get_avail1" THEN "avail1"
    ELSE "avail2"

\* C22: ConnPoolCallback is deferred once at the entry of GetWithTimeout and
\* fires at its return with the path and the error of that moment. The
\* path it carries is the stage in which the acquire ended: whenever a
\* select of the acquire ends it, with a connection, with ErrorClosedPool
\* or with ErrorPoolTimeout, the path is the label of that select, and the
\* acquire that takes a permit there carries create.
C22_CallbackCarriesStage ==
    [][\A c \in Callers :
          /\ (Acquiring(c) /\ pc'[c] \in {"get_free", "get_ret"})
                => path'[c] = StageLabel(pc[c])
          /\ (Acquiring(c) /\ pc'[c] = "get_mk") => path'[c] = "create"]_vars

\* ------------------------------------------------------------------- C23
\* The Statistics of caller c got its response with an embedded error and
\* then the end marker, and is in its deferred Return.
EmbeddedError(c) ==
    /\ op[c] = "Statistics"
    /\ resp[c] = "StatisticsResponseErr"
    /\ err[c] = "ResponseError"
    /\ pc[c] \in RetPcs

\* In every state: that Return runs with healthy = true, and at its select
\* the connection is open with nothing left to read on it.
C23_State ==
    \A c \in Callers : EmbeddedError(c) =>
        /\ rhealthy[c]
        /\ fault[c] = "none"
        /\ pc[c] = "ret_select" =>
              sock[connectn[c]] = "open" /\ stream[connectn[c]] = "idle"

\* In every step: the end marker after a response with an embedded error
\* ends Statistics with that error and starts the healthy Return; the select
\* of that Return deposits the connection when the buffer has room, and the
\* deposit takes no permit back and closes nothing.
C23_Step ==
    \A c \in Callers :
        /\ (/\ op[c] = "Statistics"
            /\ pc[c] = "st_recv2"
            /\ resp[c] = "StatisticsResponseErr"
            /\ pc'[c] # pc[c]
            /\ stream'[connectn[c]] = "idle")
              => err'[c] = "ResponseError" /\ pc'[c] = "ret_select"
        /\ (EmbeddedError(c) /\ pc[c] = "ret_select" /\ pc'[c] # pc[c]) =>
              /\ Len(connections) < poolSize =>
                    /\ connections' = Append(connections, connectn[c])
                    /\ pc'[c] = "ret_free"
              /\ pc'[c] = "ret_free" => createsem' = createsem /\ sock' = sock

\* C23: a Statistics whose two frames arrive in order and whose response
\* carries an embedded error returns that error, and its connection is
\* returned healthy: deposited in the idle buffer if that has room, with its
\* permit kept.
C23_EmbeddedErrorKeepsConnection == []C23_State /\ [][C23_Step]_vars

\* The Statistics has returned the embedded error and its connection is in
\* the idle buffer, open, with its permit.
C23_Witness ==
    \E c \in Callers :
        /\ EmbeddedError(c)
        /\ pc[c] = "ret_done"
        /\ InIdle(connectn[c])
        /\ sock[connectn[c]] = "open"
        /\ createsem >= 1
        /\ freeConns = 1

\* ------------------------------------------------------------------- C25
\* Caller c is in Return(connectn, true) with a connection, on an open pool.
HealthyReturn(c) == rhealthy[c] /\ connectn[c] # NoConn /\ ~closed

\* C25: the select of Return(connection, healthy = true) on an open pool
\* never blocks. If the idle buffer has room it deposits the connection,
\* free_count goes up by one and the permit stays taken; if the buffer is
\* full the connection goes to no one, exactly one permit is released, the
\* connection is closed and free_count stays as it is.
C25_NonBlockingDeposit ==
    [][\A c \in Callers :
          (HealthyReturn(c) /\ pc'[c] # pc[c]) =>
              /\ pc[c] = "ret_select" =>
                    IF Len(connections) < poolSize
                    THEN /\ connections' = Append(connections, connectn[c])
                         /\ pc'[c] = "ret_free"
                         /\ createsem' = createsem
                         /\ sock' = sock
                    ELSE /\ pc'[c] = "ret_sem"
                         /\ UNCHANGED <<connections, connectn, freeConns, sock>>
              /\ pc[c] = "ret_free" =>
                    /\ freeConns' = freeConns + 1
                    /\ createsem' = createsem
              /\ pc[c] = "ret_sem" =>
                    /\ createsem' = createsem - 1
                    /\ freeConns' = freeConns
              /\ pc[c] = "ret_close" =>
                    /\ sock'[connectn[c]] = "overflow"
                    /\ createsem' = createsem
                    /\ freeConns' = freeConns]_vars

\* ------------------------------------------------------------------- C26
\* Caller c is in a Return that was given no connection.
NilReturn(c) == pc[c] \in RetPcs /\ connectn[c] = NoConn

\* In every state: a Return with no connection is at its deferred decrement
\* or past it.
C26_State ==
    \A c \in Callers : NilReturn(c) => pc[c] \in {"ret_defer", "ret_done"}

\* In every step of a caller in Return: Return ends only through its
\* deferred decrement, which takes exactly one from cur_active, and no other
\* step of it changes cur_active; a Return with no connection changes
\* nothing else of the pool, and neither does the call of it.
C26_Step ==
    \A c \in Callers :
        /\ (pc[c] \in RetPcs /\ pc'[c] # pc[c]) =>
              /\ pc'[c] = "ret_done" => pc[c] = "ret_defer"
              /\ pc'[c] \notin RetPcs => pc[c] = "ret_done"
              /\ curActConns' = IF pc[c] = "ret_defer" THEN curActConns - 1
                                ELSE curActConns
        /\ (pc[c] \notin RetPcs /\ pc'[c] \in RetPcs) =>
              /\ pc'[c] \in RetStart
              /\ UNCHANGED <<poolVars, sock>>
        /\ (NilReturn(c) /\ pc'[c] # pc[c]) =>
              UNCHANGED <<connections, closed, createsem, freeConns, stopCh, sock>>

\* C26: every call of Return takes exactly one from cur_active on every
\* path (no connection, deposit, overflow discard, unhealthy close, closed
\* pool), and a Return with no connection does nothing else: it releases no
\* permit and leaves free_count and the idle buffer as they are.
C26_ReturnAlwaysDecrements == []C26_State /\ [][C26_Step]_vars

\* A Return with no connection has run its decrement on a pool nobody has
\* acquired from, and the other caller's Return met the closed pool.
C26_Witness ==
    \E c, d \in Callers :
        /\ NilReturn(c)
        /\ pc[c] = "ret_done"
        /\ pc[d] = "ret_done"
        /\ connectn[d] # NoConn
        /\ sock[connectn[d]] = "recover"
        /\ curActConns = -1
        /\ createsem = 1

\* ------------------------------------------------------------------- C27
\* In every state: the connection a caller holds is open, and the
\* replacement a Renew has dialled is open and is another connection.
C27_State ==
    \A c \in Callers :
        /\ pc[c] \in {"held", "renew_mk"} => IsOpen(connectn[c])
        /\ pc[c] = "renew_close" =>
              /\ newConn[c] # NoConn
              /\ newConn[c] # connectn[c]
              /\ IsOpen(newConn[c])
              /\ err[c] = "nil"

\* In every step of a Renew: permits, both counters and the idle buffer stay
\* as they are. The dial either succeeds, or fails and ends Renew with the
\* error and the original connection, untouched; after a dial that
\* succeeded the old connection is closed and the caller has the new one.
C27_Step ==
    \A c \in Callers :
        /\ (pc[c] = "renew_mk" /\ pc'[c] # pc[c]) =>
              /\ UNCHANGED <<connections, closed, createsem, curActConns, freeConns>>
              /\ connectn'[c] = connectn[c]
              /\ sock'[connectn[c]] = "open"
              /\ \/ pc'[c] = "renew_close" /\ err'[c] = "nil"
                 \/ pc'[c] = "held" /\ err'[c] = "DialError" /\ sock' = sock
        /\ (pc[c] = "renew_close" /\ pc'[c] # pc[c]) =>
              /\ UNCHANGED <<connections, closed, createsem, curActConns, freeConns>>
              /\ pc'[c] = "held"
              /\ connectn'[c] = newConn[c]
              /\ err'[c] = "nil"
              /\ sock'[connectn[c]] # "open"
              /\ sock'[newConn[c]] = "open"

\* C27: Renew(connection) leaves the permits taken, cur_active, free_count
\* and the idle buffer unchanged in both outcomes: after a dial that
\* succeeds the old connection is closed and the new one returned with no
\* error; after one that fails the original connection is returned, still
\* open, with the error.
C27_RenewKeepsAccounting == []C27_State /\ [][C27_Step]_vars

\* With a single permit in the pool, a caller holds a second connection:
\* its Renew has replaced the first, and the accounting is that of one
\* borrowed connection.
C27_Witness ==
    \E c \in Callers :
        /\ poolSize + poolOverflow = 1
        /\ pc[c] = "held"
        /\ err[c] = "nil"
        /\ connectn[c] = 2
        /\ Made = {2}
        /\ createsem = 1
        /\ curActConns = 1
        /\ freeConns = 0

\* ------------------------------------------------------------------- C28
\* The closeStream of caller c's Scan or ScanAll was aborted: its
\* EndStreamRequest could not be sent, or a receive failed with a transport
\* error (not the end of input) while it read up to the end marker.
CloseAborted(c) ==
    /\ op[c] \in Scans
    /\ \/ fault[c] = "close_send"
       \/ fault[c] = "close_recv" /\ err[c] = "TransportError"

\* C28: when closeStream is aborted, the connection is returned to the pool
\* as unhealthy: Return runs with healthy = false, makes no deposit, and once
\* it is over the connection is closed and no acquire can receive it.
C28_AbortedCloseReturnsUnhealthy ==
    \A c \in Callers :
        (CloseAborted(c) /\ pc[c] \in RetPcs) =>
            /\ ~rhealthy[c]
            /\ pc[c] \notin {"ret_select", "ret_free"}
            /\ pc[c] = "ret_done" => IsClosed(connectn[c]) /\ ~Reusable(c)

\* ------------------------------------------------------------------- C29
\* The callback of caller c's Scan or ScanAll was last given the end marker.
MarkerDelivered(c) == op[c] \in Scans /\ cb[c].last = "StreamEndResponse"

\* In every state: after the end marker the loop is over and the call is in
\* its deferred Return, healthy is true, no error is pending and no
\* EndStreamRequest was sent.
C29_State ==
    \A c \in Callers : MarkerDelivered(c) =>
        /\ pc[c] \in RetPcs
        /\ healthy[c]
        /\ err[c] = "nil"
        /\ endReqs[c] = 0
        /\ fault[c] = "none"

\* In every step: the receive that ends the stream on the connection hands
\* the marker to the callback, sets healthy, leaves the loop for the
\* deferred Return and sends nothing.
C29_Step ==
    \A c \in Callers :
        (/\ op[c] \in Scans
         /\ pc[c] = "sc_recv"
         /\ stream[connectn[c]] = "open"
         /\ stream'[connectn[c]] = "idle")
        => /\ cb'[c] = Invoked(c, "StreamEndResponse")
           /\ healthy'[c]
           /\ pc'[c] \in RetStart
           /\ endReqs'[c] = endReqs[c]

\* C29: when the frame a Scan or ScanAll receives is the end marker, the
\* callback is invoked with it, the loop exits with healthy = true and no
\* EndStreamRequest is sent, whatever the callback returns.
C29_EndMarkerEndsLoop == []C29_State /\ [][C29_Step]_vars

\* A scan has read its stream to the end marker and its connection is back
\* in the idle buffer.
C29_Witness ==
    \E c \in Callers :
        /\ MarkerDelivered(c)
        /\ pc[c] = "ret_done"
        /\ endReqs[c] = 0
        /\ InIdle(connectn[c])
        /\ stream[connectn[c]] = "idle"

\* ------------------------------------------------------------------- C30
\* Caller c has made a step.
Stepped(c) == pc'[c] # pc[c] \/ cb'[c] # cb[c]

\* In every state: the callback was not invoked before the request was sent,
\* nor in a call whose acquire or request send failed, nor by Statistics; it
\* is given at most one error; inside the loop it has been given neither an
\* error nor the end marker.
C30_State ==
    \A c \in Callers :
        /\ pc[c] \in {"idle", "get_short", "get_avail1", "get_avail2", "get_mk",
                      "get_unsem", "get_free", "get_act", "get_ret", "cl_send"}
              => cb[c] = NoCallb
        /\ fault[c] = "send" => cb[c] = NoCallb
        /\ op[c] \notin Scans => cb[c] = NoCallb
        /\ cb[c].errs = (IF cb[c].last = "err" THEN 1 ELSE 0)
        /\ pc[c] = "sc_recv" => cb[c].last \in {"none", "ResponseStream"}

\* In every step of a Scan or ScanAll: each receive of the driver loop
\* invokes the callback once, with what was received, before the next
\* receive; nothing else invokes it, the reads of closeStream included; the
\* loop is entered from the request send only, and it is left when the
\* callback got an error or the end marker.
C30_Step ==
    \A c \in Callers :
        /\ (pc[c] = "sc_recv" /\ Stepped(c)) =>
              /\ cb'[c].n = cb[c].n + 1
              /\ cb'[c].last # "none"
              /\ cb'[c].last \in {"err", "StreamEndResponse"} => pc'[c] \in RetStart
              /\ pc'[c] \in {"sc_recv", "cs_send"} \cup RetStart
        /\ (pc[c] # "sc_recv" /\ Stepped(c)) =>
              \/ cb'[c] = cb[c]
              \/ pc[c] = "ret_done" /\ cb'[c] = NoCallb
        /\ (pc'[c] = "sc_recv" /\ pc[c] # "sc_recv") => pc[c] = "cl_send"

\* C30: in Scan and ScanAll the callback is invoked exactly once for each
\* frame the driver loop receives, in arrival order; it is not invoked again
\* after it returned false, after it was given a transport error or after it
\* was given the end marker; the frames closeStream reads are not given to
\* it; and it is never invoked when the acquire or the request send fails.
C30_CallbackOncePerFrame == []C30_State /\ [][C30_Step]_vars

\* A scan whose callback took one frame and refused the second has finished
\* its closeStream and its Return: the callback was invoked twice.
C30_Witness ==
    \E c \in Callers :
        /\ Drained(c)
        /\ pc[c] = "ret_done"
        /\ cb[c] = [last |-> "ResponseStream", errs |-> 0, n |-> 2]
        /\ endReqs[c] = 1

\* ------------------------------------------------------------------- C31
\* The non-blocking take of releaseConns has found the idle buffer empty and
\* open.
EmptyTake == rel.pc = "rel_recv" /\ Len(connections) = 0 /\ ~closed

\* C31: when the non-blocking take of one shrink step finds no connection,
\* the step ends there: the routine goes back to its sleep and does not load
\* the counters for another try.
C31_EmptyTakeStops ==
    [][(EmptyTake /\ rel' # rel) => rel'.pc = "sleep"]_vars

\* ------------------------------------------------------------------- C32
\* C32: one call of releaseConns closes at most relConnBatchSize idle
\* connections, whatever the callers do to the counters while it runs.
C32_BatchCapsShrink == rel.released <= relConnBatchSize

\* ------------------------------------------------------------------- C33
\* numConnsToRetain decides to shrink.
DecidesToShrink == rel.pc = "retain_fc" /\ rel'.pc = "rel_fc"

\* releaseConns closes the idle connection it took.
ShrinkCloses == rel.pc = "rel_close" /\ rel'.pc # "rel_close"

\* C33: the evaluation shrinks only when act + fc - relConnBatchSize is at
\* least max(minPoolSizeWM, act, rate), and no close of the shrink leaves
\* curActConns + freeConns below minPoolSizeWM, whatever unhealthy Returns
\* and overflow discards happen meanwhile.
C33_ShrinkKeepsWaterMark ==
    [][/\ DecidesToShrink =>
             /\ rel.act + freeConns - relConnBatchSize >= max(minPoolSizeWM, rel.act)
             /\ rel'.numRetConns >= minPoolSizeWM
       /\ ShrinkCloses => curActConns' + freeConns' >= minPoolSizeWM]_vars

\* ------------------------------------------------------------------- C34
\* Close has sent the stop signal and the routine has not received it.
StopPending == stopCh > 0 /\ rel.pc # "stopped"

\* releaseConnsRoutine has returned.
Stopped == rel.pc = "stopped"

\* A connection is closed by releaseConns.
ShrinkClosed == \E k \in ConnIds : sock[k] # "shrink" /\ sock'[k] = "shrink"

\* The routine at its select takes the stop signal when there is one, and a
\* routine that has returned samples nothing, shrinks nothing and closes
\* nothing.
C34_Step ==
    /\ (rel.pc = "sleep" /\ stopCh > 0 /\ rel' # rel) => rel'.pc = "stopped"
    /\ Stopped => /\ rel' = rel
                  /\ ewma' = ewma
                  /\ ~ShrinkClosed

\* C34: once Close has sent the stop signal the routine terminates, at its
\* next tick, and after that it takes no EWMA sample and closes no
\* connection.
C34_StopTerminatesRoutine == (StopPending ~> Stopped) /\ [][C34_Step]_vars

\* The routine shrank the pool, Close sent the stop signal and has returned,
\* and the routine has returned.
C34_Witness ==
    /\ Stopped
    /\ freeConns < poolSize
    /\ cls.pc = "idle" /\ cls.n >= 1

\* ------------------------------------------------------------------- C35
\* Caller c takes the step of its fast path in an acquire that it started
\* after close(cp.connections).
LateFastPath(c) == pc[c] = "get_short" /\ closedAtEntry[c] /\ pc'[c] # pc[c]

\* The acquire of caller c returns ErrorClosedPool and has touched nothing.
ClosedPoolReturned(c) ==
    /\ pc'[c] = "get_ret"
    /\ err'[c] = "ErrorClosedPool"
    /\ connectn'[c] = NoConn
    /\ UNCHANGED <<connections, createsem, curActConns, freeConns, sock>>

\* C35 as stated: every acquire that starts after Close has closed the idle
\* buffer returns ClosedPool from the fast path, with no connection, no
\* permit taken, no dial, and curActConns and freeConns unchanged.
C35_ClosedPoolFailsFast ==
    [][\A c \in Callers : LateFastPath(c) => ClosedPoolReturned(c)]_vars

\* Once the Close that closed the idle buffer has returned, the buffer is
\* empty and stays closed; an acquire entered with the channel closed has the
\* channel closed at its fast path.
C35_State ==
    /\ (closed /\ cls.pc = "idle") => Len(connections) = 0
    /\ \A c \in Callers : closedAtEntry[c] => closed

C35_Step ==
    \A c \in Callers :
        (LateFastPath(c) /\ Len(connections) = 0) => ClosedPoolReturned(c)

\* C35 amended: every acquire that starts after Close has closed and drained
\* the idle buffer (in particular after that Close has returned) returns
\* ClosedPool from the fast path, with no connection, no permit taken, no
\* dial, and curActConns and freeConns unchanged.
C35_DrainedPoolFailsFast == []C35_State /\ [][C35_Step]_vars

\* An acquire that started after Close had returned has come back from its
\* fast path with ErrorClosedPool.
C35_Witness ==
    \E c \in Callers :
        /\ closedAtEntry[c]
        /\ pc[c] = "get_ret"
        /\ err[c] = "ErrorClosedPool"
        /\ path[c] = "short-circuit"
        /\ cls.pc = "idle"

\* ------------------------------------------------------------------- C36
\* cp.createsem has room: the send of line 200 can proceed.
PermitFree == createsem < poolSize + poolOverflow

\* C36: on an open pool with no acquire, Return or shrink part-way through,
\* whenever fewer than poolSize + poolOverflow connections exist, idle or
\* borrowed, a create permit is free, so that an acquire that finds no idle
\* connection can dial one instead of timing out.
C36_CapacityNeverLost ==
    (CallersAtRest /\ ShrinkAtRest /\ ~closed
        /\ Cardinality(PoolConns) < poolSize + poolOverflow) => PermitFree

\* ------------------------------------------------------------------- C37
\* Caller c is at the blocking receive from cp.createsem of Return, on the
\* unhealthy path or on the overflow-discard path.
AtPermitRelease(c) == pc[c] = "ret_sem"

\* C37 as stated: in every state the create permits held are at least as many
\* as the existing connections, idle or borrowed, and so the permit release
\* of Return always finds a permit.
C37_PermitsCoverConns ==
    /\ createsem >= Cardinality(PoolConns)
    /\ \A c \in Callers : AtPermitRelease(c) => createsem > 0

\* C37 amended: in every state the create permits held are at least as many
\* as the existing connections, not counting a connection whose permit its
\* Return has released and that it is about to close (nor the old connection
\* of a Renew that has dialled the replacement), and the permit release of
\* Return always finds a permit: Return never blocks.
C37_ReturnNeverBlocks ==
    /\ createsem >= Cardinality(PermitConns)
    /\ \A c \in Callers : AtPermitRelease(c) => createsem > 0

\* One Return has released the permit of an unhealthy connection and is about
\* to close it, while another is at the permit release of an overflow
\* discard.
C37_Witness ==
    \E c, d \in Callers :
        /\ pc[c] = "ret_close" /\ ~rhealthy[c]
        /\ AtPermitRelease(d) /\ rhealthy[d]

\* ------------------------------------------------------------------- C38
\* Close is at `cp.stopCh <- true` with the buffer of stopCh full and the
\* routine, the only receiver, gone: the send can never proceed.
StopSendStuck == cls.pc = "stop" /\ stopCh > 0 /\ rel.pc = "stopped"

\* C38: every invocation of Close returns, however many there are: no Close
\* is ever left at its send of the stop signal with nobody to receive it.
C38_EveryCloseReturns == ~StopSendStuck

\* ------------------------------------------------------------------- C39
\* No call of Close is under way.
CloseAtRest == cls.pc = "idle"

\* The callers that hold a connection.
Holders == {c \in Callers : CountedActive(c)}

\* C39: whenever no acquire, Return, shrink step or Close is part-way
\* through, freeConns is the number of connections in the idle buffer,
\* curActConns is the number of connections callers hold, and neither is
\* negative, also after Close has drained the idle buffer.
C39_CountersMatchAtRest ==
    (CallersAtRest /\ ShrinkAtRest /\ CloseAtRest) =>
        /\ freeConns = Len(connections)
        /\ curActConns = Cardinality(Holders)
        /\ freeConns >= 0
        /\ curActConns >= 0

\* ------------------------------------------------------------------- C40
\* MetakvBigValueGet has returned, and since the metakv.Set before it no
\* MetakvBigValueSet was under way: the last one had returned nil.
GotAfterSet ==
    /\ bigget.err \notin {"none", "ListAllChildren"}
    /\ bigset.pc = "idle"
    /\ lastSet # NoValue

\* MetakvBigValueGet has returned while chunks of the value being set were
\* not written yet.
GotWithChunkMissing ==
    /\ bigget.err \notin {"none", "ListAllChildren"}
    /\ bigset.pc = "loop"

\* C40: MetakvBigValueGet after a completed MetakvBigValueSet returns (true,
\* the value last set), whatever was set at the path before, values of more
\* chunks included; and while a chunk of the value is missing it returns
\* (false, nil) and no partial value.
C40_BigValueRoundTrip ==
    /\ GotAfterSet => bigget = [ok |-> TRUE, err |-> "nil", value |-> lastSet]
    /\ GotWithChunkMissing => bigget = [ok |-> FALSE, err |-> "nil", value |-> NoValue]

====
